---- MODULE Spec2Model ----
(***************************************************************************)
(* Model of mcp_copper's batch executor (src/mcp_copper/api/batch.py) over *)
(* the pydantic entity models (src/mcp_copper/models) and an asynchronous  *)
(* transport (the client's post/put/delete coroutines).                    *)
(*                                                                         *)
(* A Python dict is a TLA+ function whose DOMAIN is the dict's key set, so *)
(* "key in dict" is  k \in DOMAIN d.  A run is one invocation of a batch   *)
(* coroutine; its local variables are indexed by the run.                  *)
(***************************************************************************)
EXTENDS Integers, Sequences, FiniteSets, TLC

VARIABLES
    coro,               \* coro[c]: the coroutine run c executes, "none" before the call
    entity_type,        \* entity_type[c]: the entity_type argument
    records,            \* records[c]: the records (create, update) or ids (delete) argument
    continue_on_error,  \* continue_on_error[c]: keyword argument
    return_errors,      \* return_errors[c]: keyword argument
    pc,                 \* pc[c]: "idle", "loop", "await", "break", "done", "raised", "cancelled"
    idx,                \* idx[c]: 1-based position of the loop variable in records[c]
    results,            \* results[c]: the local list results
    succeeded,          \* succeeded[c]: the local counter
    failed,             \* failed[c]: the local counter
    outcome,            \* outcome[c]: the returned dict, <<>> until the return
    pending,            \* pending[c]: transport calls of run c that have not completed
    calls,              \* every transport call made so far, in order (the mock's call list)
    replies,            \* replies[c]: what the transport answered to run c's calls, in order
    origin,             \* origin[c][j]: position of the record that produced results[c][j]
    script,             \* the transport's answer to the k-th call of a run, once decided
    rpc,                \* related API coroutine: "idle", "await", "returned", "raised"
    rargs,              \* the arguments of the related API call
    rcalls,             \* the GET calls the related API made, in order
    rresponse,          \* what the transport answered to the GET
    rresult,            \* what the related API call returned or raised
    mcls,               \* marshaling: the model class under study
    kwargs,             \* the keyword arguments given to the model constructor
    instance,           \* what the constructor returned or raised
    payload,            \* what to_api returned
    wire,               \* the wire JSON dict object handed to from_api
    wire0,              \* the content of that dict when it was first handed over
    decoded,            \* what the successive from_api calls on wire returned or raised
    session,            \* CopperClient.client: an httpx.Client object, or None
    clients,            \* number of httpx.Client objects constructed so far
    oplog               \* the client operations made so far, each with how it ended

batch_vars == <<coro, entity_type, records, continue_on_error, return_errors, pc, idx,
                results, succeeded, failed, outcome, pending, calls, replies, origin, script>>

related_vars == <<rpc, rargs, rcalls, rresponse, rresult>>

marshal_vars == <<mcls, kwargs, instance, payload, wire, wire0, decoded>>

client_vars == <<session, clients, oplog>>

vars == <<batch_vars, related_vars, marshal_vars, client_vars>>

(***************************************************************************)
(* Bounds.                                                                 *)
(***************************************************************************)
MaxLen == 3             \* longest input sequence of a batch call

Runs == {1, 2}          \* run 1 is the call under study, run 2 its replay

\* Python's None, where the code produces it (dict.get on a missing key).
None == -1

EntityTypes == {"opportunities", "people", "companies", "tasks"}

\* Record dicts handed to create, and used as the data of update records.
SampleData ==
    { [name |-> "A", status |-> "Open"],
      [status |-> "Open"],
      [id |-> 7, name |-> "B", probability |-> 150] }

\* The records of update: dicts with the keys id and data.
SampleUpdates ==
    { [id |-> 1, data |-> [name |-> "A", status |-> "Open"]],
      [id |-> 2, data |-> [status |-> "Open"]],
      [id |-> 2, data |-> [id |-> 7, name |-> "B", probability |-> 150]],
      [data |-> [name |-> "A", status |-> "Open"]] }

SampleIds == {1, 2, 3}

\* What one transport call can do: return a JSON dict (with or without the
\* key id) or raise an exception.
Answers ==
    { [kind |-> "return", json |-> [id |-> 123]],
      [kind |-> "return", json |-> [id |-> 456]],
      [kind |-> "return", json |-> [status |-> "ok"]],
      [kind |-> "raise", message |-> "API Error"] }

SeqsUpTo(S, n) == UNION { [1..k -> S] : k \in 0..n }

(***************************************************************************)
(* Entity models: what the model constructor accepts.                      *)
(***************************************************************************)
_get_model_class(et) ==
    CASE et = "opportunities" -> "Opportunity"
      [] et = "people"        -> "Person"
      [] et = "companies"     -> "Company"
      [] et = "tasks"         -> "Task"

\* name: str  -- a required field of all four models.
NameOk(d) == "name" \in DOMAIN d

PriorityValues == {"None", "Low", "Medium", "High"}

\* One status enumeration shared by the classes.
StatusValuesShared(cls) ==
    {"Open", "Won", "Lost", "Abandoned", "Completed", "Active", "Inactive", "Lead", "Customer"}

StatusValues(cls) ==
    CASE cls = "Opportunity" -> {"Open", "Won", "Lost", "Abandoned"}
      [] cls = "Task"        -> {"Open", "Completed"}
      [] cls = "Person"      -> {"Active", "Inactive", "Lead", "Customer"}
      [] cls = "Company"     -> {}

\* status: Optional[Literal[...]]  (Company declares no status field, and
\* pydantic ignores keys that are not fields).
StatusOk(cls, d) ==
    (cls # "Company" /\ "status" \in DOMAIN d) => d.status \in StatusValues(cls)

\* priority: Optional[Literal["None", "Low", "Medium", "High"]]
PriorityOk(cls, d) ==
    (cls \in {"Opportunity", "Task"} /\ "priority" \in DOMAIN d)
        => d.priority \in PriorityValues

\* probability / win_probability: Optional[int] = Field(default=None, ge=0, le=100)
probability_bounds(v) == v >= 0 /\ v <= 100

\* The validator with the upper bound left out of the range.
validate_probability_below_100(v) == 0 <= v /\ v < 100

\* validate_probability: v is not None and not (0 <= v <= 100) raises
validate_probability(v) == 0 <= v /\ v <= 100

ProbabilityOk(cls, d) ==
    cls = "Opportunity" =>
        /\ "probability" \in DOMAIN d => validate_probability(d.probability)
        /\ "win_probability" \in DOMAIN d => validate_probability(d.win_probability)

\* interaction_count: Optional[int], validator rejects v < 0
validate_interaction_count(v) == ~(v < 0)

InteractionOk(cls, d) ==
    (cls \in {"Person", "Company"} /\ "interaction_count" \in DOMAIN d)
        => validate_interaction_count(d.interaction_count)

\* model_class(record as keyword arguments) returns an instance (TRUE) or raises ValidationError.
Validates(cls, d) ==
    /\ NameOk(d)
    /\ StatusOk(cls, d)
    /\ PriorityOk(cls, d)
    /\ ProbabilityOk(cls, d)
    /\ InteractionOk(cls, d)

(***************************************************************************)
(* Python values of the marshaling layer (src/mcp_copper/models).  A value *)
(* is a tuple: its Python type at [1], its content at [2], so isinstance   *)
(* and "is None" are tests on v[1].  The dict handed to from_api, or to a  *)
(* model constructor as keyword arguments, is a function from its keys to  *)
(* such values; a dict that is itself a value is a tuple like the others.  *)
(***************************************************************************)
Null == <<"NoneType">>
PyInt(n) == <<"int", n>>
Str(s) == <<"str", s>>
List(q) == <<"list", q>>
Dict(d) == <<"dict", d>>

\* A JSON number with a fractional part: unscaled * 10^-places.
Float(unscaled, places) == <<"float", unscaled, places>>

\* decimal.Decimal, and the str that str(Decimal) gives.
Decimal(unscaled, places) == <<"Decimal", unscaled, places>>
NumStr(unscaled, places) == <<"numstr", unscaled, places>>

\* datetime.datetime: whole seconds since the epoch and microseconds.
DateTime(sec, us) == <<"datetime", sec, us>>

\* An instance of a model class: every field of the class has a value.
Model(cls, fields) == <<"model", fields, cls>>

\* No value supplied for a field (pydantic's _missing); no default (Ellipsis).
Missing == <<"missing">>

\* bool(v)
Truthy(v) ==
    CASE v[1] = "NoneType" -> FALSE
      [] v[1] = "int"      -> v[2] # 0
      [] v[1] = "float"    -> v[2] # 0
      [] v[1] = "Decimal"  -> v[2] # 0
      [] v[1] = "str"      -> v[2] # ""
      [] v[1] = "list"     -> Len(v[2]) # 0
      [] v[1] = "dict"     -> DOMAIN v[2] # {}
      [] OTHER            -> TRUE

\* datetime.fromtimestamp(n) and int(d.timestamp())
fromtimestamp(n) == DateTime(n, 0)
timestamp(d) == d[2]

\* d[k] = v  and  d.pop(k)  on a dict
Put(d, k, v) == [x \in DOMAIN d \cup {k} |-> IF x = k THEN v ELSE d[x]]
Pop(d, k) == [x \in DOMAIN d \ {k} |-> d[x]]

\* What a call gives back: a value or an exception.
Ok(x) == [kind |-> "ok", value |-> x]
Raise(e) == [kind |-> "raise", exc |-> e]
Nothing == [kind |-> "none"]

(***************************************************************************)
(* Field declarations of the model classes.  Modelled are the fields that  *)
(* the marshaling code or a validator treats specially, and id, name and   *)
(* details; the other fields of the classes are Optional[int] and          *)
(* Optional[str] fields declared like id and details.                      *)
(***************************************************************************)
ModelClasses == {"Person", "Company", "Opportunity", "Task"}

Field(name, alias, type, item, optional, default) ==
    [name |-> name, alias |-> alias, type |-> type, item |-> item,
     optional |-> optional, default |-> default]

\* name: Optional[type] = None
Opt(name, type) == Field(name, name, type, "", TRUE, Null)

\* name: Optional[datetime] = Field(None, alias=alias)
Aliased(name, alias) == Field(name, alias, "datetime", "", TRUE, Null)

\* name: List[item] = Field(default_factory=list)
Lst(name, type, item) == Field(name, name, type, item, FALSE, List(<<>>))

CopperModelFields ==
    { Opt("id", "int"),
      Aliased("created_at", "date_created"),
      Aliased("updated_at", "date_modified"),
      Field("custom_fields", "custom_fields", "Dict", "", TRUE, Dict(<<>>)) }

\* The fields of a subclass: its own, and the inherited ones it does not redeclare.
Inherit(own) == {f \in CopperModelFields : f.name \notin {g.name : g \in own}} \cup own

\* date_created / date_modified as the four entity classes redeclare them.
EntityDates == { Aliased("date_created", "created_at"), Aliased("date_modified", "updated_at") }

Schema(cls) ==
    CASE cls \in {"PersonAddress", "CompanyAddress"} ->
            Inherit({ Opt("street", "str"), Opt("city", "str"), Opt("state", "str"),
                      Opt("postal_code", "str"), Opt("country", "str") })
      [] cls \in {"PersonCustomField", "CompanyCustomField",
                  "OpportunityCustomField", "TaskCustomField"} ->
            Inherit({ Field("custom_field_definition_id", "field_id", "int", "", FALSE, Missing),
                      Opt("value", "Any") })
      [] cls = "Person" ->
            Inherit({ Opt("id", "int"),
                      Field("name", "name", "str", "", FALSE, Missing),
                      Lst("emails", "List[EmailStr]", ""),
                      Lst("phone_numbers", "List[str]", ""),
                      Lst("addresses", "List[model]", "PersonAddress"),
                      Opt("prefix", "str"), Opt("first_name", "str"),
                      Opt("last_name", "str"), Opt("suffix", "str"),
                      Opt("title", "str"), Opt("company_id", "int"),
                      Opt("company_name", "str"),
                      Lst("tags", "List[str]", ""),
                      Field("social_links", "social_links", "Dict", "", FALSE, Dict(<<>>)),
                      Opt("details", "str"),
                      Opt("assignee_id", "int"), Opt("contact_type_id", "int"),
                      Field("status", "status", "status", "", TRUE, Str("Active")),
                      Opt("interaction_count", "interaction_count"),
                      Opt("last_interaction", "datetime"),
                      Lst("custom_fields", "List[model]", "PersonCustomField") }
                    \cup EntityDates)
      [] cls = "Company" ->
            Inherit({ Opt("id", "int"),
                      Field("name", "name", "str", "", FALSE, Missing),
                      Opt("assignee_id", "int"), Opt("contact_type_id", "int"),
                      Opt("details", "str"), Opt("email_domain", "str"),
                      Lst("phone_numbers", "List[str]", ""),
                      Field("socials", "socials", "Dict", "", FALSE, Dict(<<>>)),
                      Lst("tags", "List[str]", ""),
                      Lst("websites", "List[HttpUrl]", ""),
                      Lst("addresses", "List[model]", "CompanyAddress"),
                      Opt("parent_company_id", "int"),
                      Opt("interaction_count", "interaction_count"),
                      Opt("last_interaction", "datetime"),
                      Lst("custom_fields", "List[model]", "CompanyCustomField") }
                    \cup EntityDates)
      [] cls = "Opportunity" ->
            Inherit({ Opt("id", "int"),
                      Field("name", "name", "str", "", FALSE, Missing),
                      Opt("assignee_id", "int"),
                      Opt("close_date", "datetime"),
                      Opt("company_id", "int"), Opt("company_name", "str"),
                      Opt("customer_source_id", "int"),
                      Opt("details", "str"),
                      Opt("loss_reason_id", "int"),
                      Opt("monetary_value", "condecimal"),
                      Opt("pipeline_id", "int"), Opt("pipeline_stage_id", "int"),
                      Opt("priority", "priority"),
                      Opt("probability", "probability"),
                      Field("status", "status", "status", "", TRUE, Str("Open")),
                      Lst("tags", "List[str]", ""),
                      Opt("win_probability", "probability"),
                      Lst("custom_fields", "List[model]", "OpportunityCustomField") }
                    \cup EntityDates)
      [] cls = "Task" ->
            Inherit({ Opt("id", "int"),
                      Field("name", "name", "str", "", FALSE, Missing),
                      Opt("assignee_id", "int"),
                      Opt("due_date", "datetime"),
                      Opt("reminder_date", "datetime"),
                      Opt("priority", "priority"),
                      Field("status", "status", "status", "", TRUE, Str("Open")),
                      Opt("details", "str"),
                      Opt("related_resource", "str"),
                      Opt("related_resource_id", "int"),
                      Opt("related_resource_type", "str"),
                      Opt("completed_date", "datetime"),
                      Lst("custom_fields", "List[model]", "TaskCustomField"),
                      Lst("tags", "List[str]", "") }
                    \cup EntityDates)

\* pydantic's EmailStr and HttpUrl checks, on the strings of the samples.
IsEmail(s) == s \in {"a@b.co", "c@d.io"}
IsUrl(s) == s \in {"https://a.co"}

\* condecimal(max_digits=15, decimal_places=2); fifteen digits are beyond
\* the integers of the samples, so only the decimal places can be exceeded.
DecimalOk(v) == v[3] <= 2

(***************************************************************************)
(* The model constructor cls(kw as keyword arguments): pydantic validates  *)
(* each declared field and ignores the keys that are not fields.           *)
(***************************************************************************)
Good(v) == [ok |-> TRUE, value |-> v]
Bad == [ok |-> FALSE]

\* allow_population_by_field_name: the alias is looked up first, then the name.
Lookup(kw, f) ==
    IF f.alias \in DOMAIN kw THEN kw[f.alias]
    ELSE IF f.name \in DOMAIN kw THEN kw[f.name]
    ELSE Missing

RECURSIVE Construct(_, _)

\* One element of a List[model] field: an instance is kept, a dict is validated.
ValidateItem(item, e) ==
    IF e[1] = "model" THEN (IF e[3] = item THEN Good(e) ELSE Bad)
    ELSE IF e[1] = "dict"
         THEN LET r == Construct(item, e[2]) IN
              IF r.kind = "ok" THEN Good(r.value) ELSE Bad
    ELSE Bad

\* The type and validator checks of field f of class cls on a value that is not None.
ValidateType(cls, f, v) ==
    CASE f.type = "int" ->
            IF v[1] = "int" THEN Good(v) ELSE Bad
      [] f.type = "str" ->
            IF v[1] = "str" THEN Good(v)
            ELSE IF v[1] = "int" THEN Good(Str(ToString(v[2])))
            ELSE Bad
      [] f.type = "datetime" ->
            IF v[1] = "datetime" THEN Good(v)
            ELSE IF v[1] = "int" THEN Good(DateTime(v[2], 0))
            ELSE Bad
      [] f.type = "status" ->
            IF v[1] = "str" /\ v[2] \in StatusValues(cls) THEN Good(v) ELSE Bad
      [] f.type = "priority" ->
            IF v[1] = "str" /\ v[2] \in PriorityValues THEN Good(v) ELSE Bad
      [] f.type = "probability" ->
            IF v[1] = "int" /\ probability_bounds(v[2]) /\ validate_probability(v[2])
               THEN Good(v) ELSE Bad
      [] f.type = "interaction_count" ->
            IF v[1] = "int" /\ validate_interaction_count(v[2]) THEN Good(v) ELSE Bad
      [] f.type = "condecimal" ->
            IF v[1] = "int" THEN Good(Decimal(v[2], 0))
            ELSE IF v[1] \in {"Decimal", "float", "numstr"} /\ DecimalOk(v)
                 THEN Good(Decimal(v[2], v[3]))
            ELSE Bad
      [] f.type = "List[str]" ->
            IF v[1] = "list" /\ \A i \in DOMAIN v[2] : v[2][i][1] \in {"str", "int"}
               THEN Good(List([i \in DOMAIN v[2] |->
                        IF v[2][i][1] = "int" THEN Str(ToString(v[2][i][2])) ELSE v[2][i]]))
               ELSE Bad
      [] f.type = "List[EmailStr]" ->
            IF v[1] = "list" /\ \A i \in DOMAIN v[2] : v[2][i][1] = "str" /\ IsEmail(v[2][i][2])
               THEN Good(v) ELSE Bad
      [] f.type = "List[HttpUrl]" ->
            IF v[1] = "list" /\ \A i \in DOMAIN v[2] : v[2][i][1] = "str" /\ IsUrl(v[2][i][2])
               THEN Good(v) ELSE Bad
      [] f.type = "List[model]" ->
            IF v[1] = "list" /\ \A i \in DOMAIN v[2] : ValidateItem(f.item, v[2][i]).ok
               THEN Good(List([i \in DOMAIN v[2] |-> ValidateItem(f.item, v[2][i]).value]))
               ELSE Bad
      [] f.type = "Dict" ->
            IF v[1] = "dict" THEN Good(v) ELSE Bad
      [] f.type = "Any" -> Good(v)

\* The value field f of class cls takes from the keyword arguments kw.
ValidateField(cls, f, kw) ==
    LET v == Lookup(kw, f) IN
    IF v = Missing THEN (IF f.default = Missing THEN Bad ELSE Good(f.default))
    ELSE IF v = Null THEN (IF f.optional THEN Good(Null) ELSE Bad)
    ELSE ValidateType(cls, f, v)

Construct(cls, kw) ==
    LET fields == Schema(cls)
        FieldNamed(n) == CHOOSE f \in fields : f.name = n
    IN  IF \A f \in fields : ValidateField(cls, f, kw).ok
           THEN Ok(Model(cls, [n \in {f.name : f \in fields} |->
                                   ValidateField(cls, FieldNamed(n), kw).value]))
           ELSE Raise("ValidationError")

\* cls(x unpacked as keyword arguments): only a mapping can be unpacked.
Unpack(cls, x) == IF x[1] = "dict" THEN Construct(cls, x[2]) ELSE Raise("TypeError")

(***************************************************************************)
(* CopperModel.dict and to_api.                                            *)
(***************************************************************************)
RECURSIVE BaseModel_dict(_, _, _)

\* pydantic's BaseModel.dict(by_alias=..., exclude_none=...): the fields as a
\* dict, nested model instances exported with the same flags.
BaseModel_dict(obj, by_alias, exclude_none) ==
    LET kept == {f \in Schema(obj[3]) : ~(exclude_none /\ obj[2][f.name] = Null)}
        Key(f) == IF by_alias THEN f.alias ELSE f.name
        Export(x) ==
            IF x[1] = "list"
               THEN List([i \in DOMAIN x[2] |->
                        IF x[2][i][1] = "model"
                           THEN Dict(BaseModel_dict(x[2][i], by_alias, exclude_none))
                           ELSE x[2][i]])
               ELSE x
    IN  [k \in {Key(f) : f \in kept} |->
            Export(obj[2][(CHOOSE f \in kept : Key(f) = k).name])]

\* dict without the override: exclude_none is left at pydantic's default.
dict_keep_none(obj, by_alias) == BaseModel_dict(obj, by_alias, FALSE)

\* CopperModel.dict: exclude_none is forced to True.
dict(obj, by_alias) == BaseModel_dict(obj, by_alias, TRUE)

\* if value: data[key] = [{inner: x} for x in value]
Wrap(data, value, key, inner) ==
    IF Truthy(value)
       THEN Put(data, key, List([i \in DOMAIN value[2] |-> Dict(inner :> value[2][i])]))
       ELSE data

\* if value: data[key] = int(value.timestamp())
Stamp(data, value, key) ==
    IF Truthy(value) THEN Put(data, key, PyInt(timestamp(value))) ELSE data

\* to_api without the mapping of the aliased fields back to the API format.
Unalias_skipped(r, name, wire_name) == r

\* if name in data: data[wire_name] = int(data.pop(name).timestamp())
Unalias(r, name, wire_name) ==
    IF r.kind # "ok" \/ name \notin DOMAIN r.value THEN r
    ELSE IF r.value[name][1] = "datetime"
         THEN Ok(Put(Pop(r.value, name), wire_name, PyInt(timestamp(r.value[name]))))
    ELSE Raise("AttributeError")

CopperModel_to_api(obj) ==
    Stamp(Stamp(dict(obj, TRUE), obj[2].created_at, "date_created"),
          obj[2].updated_at, "date_modified")

Person_to_api(obj) ==
    LET d1 == Wrap(CopperModel_to_api(obj), obj[2].emails, "emails", "email")
        d2 == Wrap(d1, obj[2].phone_numbers, "phone_numbers", "number")
        d3 == Stamp(d2, obj[2].last_interaction, "last_interaction")
    IN  Unalias(Unalias(Ok(d3), "created_at", "date_created"), "updated_at", "date_modified")

Company_to_api(obj) ==
    LET d1 == Wrap(CopperModel_to_api(obj), obj[2].phone_numbers, "phone_numbers", "number")
        d2 == Wrap(d1, obj[2].websites, "websites", "url")
        d3 == Stamp(d2, obj[2].last_interaction, "last_interaction")
    IN  Unalias(Unalias(Ok(d3), "created_at", "date_created"), "updated_at", "date_modified")

Opportunity_to_api(obj) ==
    LET d1 == Stamp(CopperModel_to_api(obj), obj[2].close_date, "close_date")
        d2 == IF obj[2].monetary_value # Null
                 THEN Put(d1, "monetary_value",
                          NumStr(obj[2].monetary_value[2], obj[2].monetary_value[3]))
                 ELSE d1
    IN  Unalias(Unalias(Ok(d2), "created_at", "date_created"), "updated_at", "date_modified")

Task_to_api(obj) ==
    LET d1 == Stamp(CopperModel_to_api(obj), obj[2].due_date, "due_date")
        d2 == Stamp(d1, obj[2].reminder_date, "reminder_date")
        d3 == Stamp(d2, obj[2].completed_date, "completed_date")
    IN  Unalias(Unalias(Ok(d3), "created_at", "date_created"), "updated_at", "date_modified")

to_api(obj) ==
    CASE obj[3] = "Person"      -> Person_to_api(obj)
      [] obj[3] = "Company"     -> Company_to_api(obj)
      [] obj[3] = "Opportunity" -> Opportunity_to_api(obj)
      [] obj[3] = "Task"        -> Task_to_api(obj)
      [] OTHER                   -> Ok(CopperModel_to_api(obj))

(***************************************************************************)
(* from_api.  The code works on the dict it was given, so a statement is a *)
(* change of that dict or an exception that ends the call; a frame is the  *)
(* dict as it stands and the exception raised so far.                      *)
(***************************************************************************)
Frame(data) == [data |-> data, exc |-> "none"]
Fail(fr, e) == [fr EXCEPT !.exc = e]
Assign(fr, k, v) == [fr EXCEPT !.data = Put(fr.data, k, v)]

\* The list comprehension's outcome: the first exception raised by an
\* element, else the list of the instances built.
comprehension(fr, key, built) ==
    LET failing == {i \in DOMAIN built : built[i].kind = "raise"}
        first == CHOOSE i \in failing : \A j \in failing : i <= j
    IN  IF failing # {}
           THEN Fail(fr, built[first].exc)
           ELSE Assign(fr, key, List([i \in DOMAIN built |-> built[i].value]))

\* data[key] = [item_cls(x as keyword arguments) for x in data[key]]
build_models(fr, key, item_cls) ==
    IF fr.data[key][1] = "list"
       THEN comprehension(fr, key, [i \in DOMAIN fr.data[key][2] |->
                                       Unpack(item_cls, fr.data[key][2][i])])
    ELSE IF fr.data[key][1] \in {"str", "dict"} /\ ~Truthy(fr.data[key])
       THEN Assign(fr, key, List(<<>>))
    ELSE Fail(fr, "TypeError")

\* if "addresses" in data: data["addresses"] = [Address(...) for addr in data["addresses"]]
\* if "custom_fields" in data and isinstance(data["custom_fields"], list): ...
wrap(fr, key, item_cls, lists_only) ==
    IF key \notin DOMAIN fr.data \/ (lists_only /\ fr.data[key][1] # "list") THEN fr
    ELSE build_models(fr, key, item_cls)

\* The comprehension without its filter: data[key] = [x[inner] for x in data[key]]
unwrap_unfiltered(fr, key, inner) ==
    IF key \notin DOMAIN fr.data \/ fr.data[key][1] # "list" THEN fr
    ELSE IF \E i \in DOMAIN fr.data[key][2] : fr.data[key][2][i][1] # "dict"
         THEN Fail(fr, "TypeError")
    ELSE IF \E i \in DOMAIN fr.data[key][2] : inner \notin DOMAIN fr.data[key][2][i][2]
         THEN Fail(fr, "KeyError")
    ELSE Assign(fr, key, List([i \in DOMAIN fr.data[key][2] |-> fr.data[key][2][i][2][inner]]))

\* if key in data and isinstance(data[key], list):
\*     data[key] = [x[inner] for x in data[key] if isinstance(x, dict) and inner in x]
unwrap(fr, key, inner) ==
    IF key \notin DOMAIN fr.data \/ fr.data[key][1] # "list" THEN fr
    ELSE LET kept == SelectSeq(fr.data[key][2],
                               LAMBDA x : x[1] = "dict" /\ inner \in DOMAIN x[2])
         IN  Assign(fr, key, List([i \in DOMAIN kept |-> kept[i][2][inner]]))

\* if "monetary_value" in data and data["monetary_value"] is not None:
\*     data["monetary_value"] = Decimal(str(data["monetary_value"]))
to_decimal(fr) ==
    IF "monetary_value" \notin DOMAIN fr.data \/ fr.data.monetary_value = Null THEN fr
    ELSE IF fr.data.monetary_value[1] = "int"
         THEN Assign(fr, "monetary_value", Decimal(fr.data.monetary_value[2], 0))
    ELSE IF fr.data.monetary_value[1] \in {"float", "numstr", "Decimal"}
         THEN Assign(fr, "monetary_value",
                     Decimal(fr.data.monetary_value[2], fr.data.monetary_value[3]))
    ELSE Fail(fr, "InvalidOperation")

\* if date_field in data and data[date_field]:
\*     data[date_field] = datetime.fromtimestamp(data[date_field])
to_datetime(fr, date_field) ==
    IF date_field \notin DOMAIN fr.data \/ ~Truthy(fr.data[date_field]) THEN fr
    ELSE IF fr.data[date_field][1] = "int"
         THEN Assign(fr, date_field, fromtimestamp(fr.data[date_field][2]))
    ELSE Fail(fr, "TypeError")

\* if wire_name in data: data[name] = data.pop(wire_name)
rename(fr, wire_name, name) ==
    IF wire_name \notin DOMAIN fr.data THEN fr
    ELSE [fr EXCEPT !.data = Put(Pop(fr.data, wire_name), name, fr.data[wire_name])]

\* One statement of a from_api body, named by what it does and on which keys.
Statement(fr, st) ==
    CASE st[1] = "wrap"        -> wrap(fr, st[2], st[3], FALSE)
      [] st[1] = "wrap_list"   -> wrap(fr, st[2], st[3], TRUE)
      [] st[1] = "unwrap"      -> unwrap(fr, st[2], st[3])
      [] st[1] = "to_decimal"  -> to_decimal(fr)
      [] st[1] = "to_datetime" -> to_datetime(fr, st[2])
      [] st[1] = "rename"      -> rename(fr, st[2], st[3])

RECURSIVE Run(_, _)

\* The statements in order, up to the first that raises.
Run(fr, sts) ==
    IF sts = <<>> \/ fr.exc # "none" THEN fr
    ELSE Run(Statement(fr, Head(sts)), Tail(sts))

\* for date_field in ["date_created", "date_modified"]: ...
CopperModel_from_api ==
    << <<"to_datetime", "date_created">>, <<"to_datetime", "date_modified">> >>

\* The two renamings every entity class ends its own statements with.
rename_dates ==
    << <<"rename", "date_created", "created_at">>,
       <<"rename", "date_modified", "updated_at">> >>

Person_from_api ==
    << <<"wrap", "addresses", "PersonAddress">>,
       <<"unwrap", "emails", "email">>,
       <<"unwrap", "phone_numbers", "number">>,
       <<"wrap_list", "custom_fields", "PersonCustomField">>,
       <<"to_datetime", "last_interaction">>,
       <<"to_datetime", "date_created">>,
       <<"to_datetime", "date_modified">> >> \o rename_dates

Company_from_api ==
    << <<"wrap", "addresses", "CompanyAddress">>,
       <<"wrap_list", "custom_fields", "CompanyCustomField">>,
       <<"unwrap", "phone_numbers", "number">>,
       <<"unwrap", "websites", "url">>,
       <<"to_datetime", "last_interaction">>,
       <<"to_datetime", "date_created">>,
       <<"to_datetime", "date_modified">> >> \o rename_dates

Opportunity_from_api ==
    << <<"wrap_list", "custom_fields", "OpportunityCustomField">>,
       <<"to_decimal">>,
       <<"to_datetime", "close_date">>,
       <<"to_datetime", "date_created">>,
       <<"to_datetime", "date_modified">> >> \o rename_dates

Task_from_api ==
    << <<"wrap_list", "custom_fields", "TaskCustomField">>,
       <<"to_datetime", "due_date">>,
       <<"to_datetime", "reminder_date">>,
       <<"to_datetime", "completed_date">>,
       <<"to_datetime", "date_created">>,
       <<"to_datetime", "date_modified">> >> \o rename_dates

\* The statements of cls.from_api, the call of super().from_api at its end included.
from_api_body(cls) ==
    ( CASE cls = "Person"      -> Person_from_api
        [] cls = "Company"     -> Company_from_api
        [] cls = "Opportunity" -> Opportunity_from_api
        [] cls = "Task"        -> Task_from_api
        [] OTHER               -> <<>> ) \o CopperModel_from_api

\* return cls(data as keyword arguments), unless a statement raised.
from_api_return(cls, fr) ==
    [result |-> IF fr.exc # "none" THEN Raise(fr.exc) ELSE Construct(cls, fr.data),
     data |-> fr.data]

\* cls.from_api(data): what the call gives back, and the dict data afterwards.
from_api(cls, data) == from_api_return(cls, Run(Frame(data), from_api_body(cls)))

(***************************************************************************)
(* Inputs of the marshaling layer: keyword arguments for the constructors  *)
(* and wire JSON dicts for from_api.  A sample is a base dict with at most *)
(* MaxFields keys set to other values.                                     *)
(***************************************************************************)
MaxFields == 2          \* keys changed in a base dict to make a sample

MaxDecodes == 2         \* from_api calls made on one wire dict

RECURSIVE Variants(_, _, _)
Variants(bases, pairs, n) ==
    IF n = 0 THEN bases
    ELSE LET less == Variants(bases, pairs, n - 1) IN
         less \cup {Put(d, p[1], p[2]) : d \in less, p \in pairs}

Street == Dict([street |-> Str("1 Main St"), city |-> Str("Anytown")])
CustomX == Dict([field_id |-> PyInt(5), value |-> Str("x")])

\* Keyword arguments every class is tried with.
CommonPairs ==
    { <<"name", Str("")>>, <<"name", Null>>,
      <<"id", PyInt(7)>>, <<"details", Null>>,
      <<"created_at", DateTime(1700, 0)>>,
      <<"date_created", DateTime(1800, 5)>>,
      <<"updated_at", DateTime(1950, 0)>>,
      <<"status", Null>>, <<"status", Str("Bogus")>>,
      <<"custom_fields", List(<<CustomX>>)>> }

ClassPairs(cls) ==
    CASE cls = "Person" ->
            { <<"status", Str("Lead")>>,
              <<"interaction_count", PyInt(-1)>>, <<"interaction_count", PyInt(3)>>,
              <<"last_interaction", DateTime(1600, 0)>>,
              <<"emails", List(<<Str("c@d.io")>>)>>, <<"emails", List(<<Str("bad")>>)>>,
              <<"phone_numbers", List(<<Str("+1"), Str("+2")>>)>>,
              <<"addresses", List(<<Street>>)>> }
      [] cls = "Company" ->
            { <<"interaction_count", PyInt(-1)>>, <<"interaction_count", PyInt(3)>>,
              <<"last_interaction", DateTime(1600, 0)>>,
              <<"phone_numbers", List(<<Str("+1"), Str("+2")>>)>>,
              <<"websites", List(<<Str("https://a.co")>>)>>,
              <<"websites", List(<<Str("bad")>>)>>,
              <<"addresses", List(<<Street>>)>> }
      [] cls = "Opportunity" ->
            { <<"status", Str("Open")>>, <<"status", Str("Won")>>, <<"status", Str("Lost")>>,
              <<"status", Str("Abandoned")>>, <<"status", Str("Completed")>>,
              <<"priority", Str("None")>>, <<"priority", Str("Low")>>,
              <<"priority", Str("Medium")>>, <<"priority", Str("High")>>,
              <<"priority", Str("Urgent")>>, <<"priority", Null>>,
              <<"probability", PyInt(-1)>>, <<"probability", PyInt(0)>>,
              <<"probability", PyInt(75)>>, <<"probability", PyInt(100)>>,
              <<"probability", PyInt(101)>>, <<"probability", PyInt(150)>>,
              <<"probability", Null>>,
              <<"win_probability", PyInt(-1)>>, <<"win_probability", PyInt(0)>>,
              <<"win_probability", PyInt(75)>>, <<"win_probability", PyInt(100)>>,
              <<"win_probability", PyInt(101)>>, <<"win_probability", PyInt(150)>>,
              <<"win_probability", Null>>,
              <<"close_date", DateTime(1500, 0)>>,
              <<"monetary_value", Decimal(105, 1)>>, <<"monetary_value", Decimal(1234, 3)>> }
      [] cls = "Task" ->
            { <<"status", Str("Open")>>, <<"status", Str("Completed")>>,
              <<"status", Str("Won")>>,
              <<"priority", Str("None")>>, <<"priority", Str("Low")>>,
              <<"priority", Str("Medium")>>, <<"priority", Str("High")>>,
              <<"priority", Str("Urgent")>>, <<"priority", Null>>,
              <<"due_date", DateTime(1500, 0)>>,
              <<"completed_date", DateTime(1550, 7)>> }

KwargPairs(cls) == CommonPairs \cup ClassPairs(cls)

\* A constructor call with the fields of the class filled in.
FullKwargs(cls) ==
      CASE cls = "Person" ->
              [name |-> Str("John Doe"), id |-> PyInt(12345),
               emails |-> List(<<Str("a@b.co")>>), phone_numbers |-> List(<<Str("+1")>>),
               addresses |-> List(<<Street>>), status |-> Str("Customer"),
               last_interaction |-> DateTime(1600, 0),
               created_at |-> DateTime(1700, 0), updated_at |-> DateTime(1900, 0)]
        [] cls = "Company" ->
              [name |-> Str("Example Corp"), id |-> PyInt(12345),
               phone_numbers |-> List(<<Str("+1")>>),
               websites |-> List(<<Str("https://a.co")>>),
               addresses |-> List(<<Street>>), interaction_count |-> PyInt(3),
               created_at |-> DateTime(1700, 0), updated_at |-> DateTime(1900, 0)]
        [] cls = "Opportunity" ->
              [name |-> Str("Deal"), id |-> PyInt(12345), status |-> Str("Won"),
               priority |-> Str("High"), probability |-> PyInt(75),
               monetary_value |-> Decimal(1000, 0), close_date |-> DateTime(1500, 0),
               created_at |-> DateTime(1700, 0), updated_at |-> DateTime(1900, 0)]
        [] cls = "Task" ->
              [name |-> Str("Call"), id |-> PyInt(12345), status |-> Str("Completed"),
               priority |-> Str("Low"), due_date |-> DateTime(1500, 0),
               completed_date |-> DateTime(1550, 0),
               created_at |-> DateTime(1700, 0), updated_at |-> DateTime(1900, 0)]

\* A constructor call without any argument, one with nothing but a name, and
\* the full one.
KwargBases(cls) == { <<>>, [name |-> Str("A")], FullKwargs(cls) }

SampleKwargs(cls) == Variants(KwargBases(cls), KwargPairs(cls), MaxFields)

\* Wire values every class is tried with.
CommonWirePairs ==
    { <<"name", Null>>, <<"id", Null>>,
      <<"date_created", PyInt(1800)>>, <<"date_created", PyInt(0)>>, <<"date_created", Null>>,
      <<"date_modified", PyInt(1950)>>,
      <<"status", Null>>, <<"status", Str("Bogus")>>,
      <<"custom_fields", List(<<CustomX>>)>>,
      <<"custom_fields", List(<<Dict([value |-> Str("x")])>>)>> }

Numbers == List(<<Dict([number |-> Str("+1")]), Dict([number |-> Str("+2")])>>)
NumberAndBogus == List(<<Dict([number |-> Str("+1")]), Dict([bogus |-> Str("x")])>>)

ClassWirePairs(cls) ==
    CASE cls = "Person" ->
            { <<"phone_numbers", Numbers>>, <<"phone_numbers", NumberAndBogus>>,
              <<"phone_numbers", List(<<>>)>>, <<"phone_numbers", Null>>,
              <<"emails", List(<<Dict([email |-> Str("c@d.io")]), Dict([bogus |-> Str("x")])>>)>>,
              <<"emails", List(<<Dict([email |-> Str("bad")])>>)>>,
              <<"addresses", List(<<Street, Str("oops")>>)>>, <<"addresses", Null>>,
              <<"addresses", List(<<>>)>>,
              <<"last_interaction", PyInt(1600)>>, <<"interaction_count", PyInt(-1)>> }
      [] cls = "Company" ->
            { <<"phone_numbers", Numbers>>, <<"phone_numbers", NumberAndBogus>>,
              <<"phone_numbers", List(<<>>)>>, <<"phone_numbers", Null>>,
              <<"websites", List(<<Dict([url |-> Str("https://a.co")]), Dict([bogus |-> Str("x")])>>)>>,
              <<"websites", List(<<Dict([url |-> Str("bad")])>>)>>,
              <<"addresses", List(<<Street, Str("oops")>>)>>, <<"addresses", Null>>,
              <<"addresses", List(<<>>)>>,
              <<"last_interaction", PyInt(1600)>>, <<"interaction_count", PyInt(-1)>> }
      [] cls = "Opportunity" ->
            { <<"monetary_value", PyInt(1000)>>, <<"monetary_value", Float(105, 1)>>,
              <<"monetary_value", Float(1234, 3)>>, <<"monetary_value", Null>>,
              <<"monetary_value", Str("abc")>>,
              <<"close_date", PyInt(1500)>>, <<"close_date", Str("soon")>>,
              <<"probability", PyInt(75)>>, <<"probability", PyInt(150)>>,
              <<"status", Str("Won")>>, <<"priority", Str("Urgent")>> }
      [] cls = "Task" ->
            { <<"due_date", PyInt(1500)>>, <<"completed_date", PyInt(1550)>>,
              <<"reminder_date", Str("soon")>>,
              <<"status", Str("Completed")>>, <<"priority", Str("High")>> }

WirePairs(cls) == CommonWirePairs \cup ClassWirePairs(cls)

\* A response shaped like the sample of the tests (tests/api/test_people.py,
\* sample_person_data).
FullWire(cls) ==
      CASE cls = "Person" ->
              [id |-> PyInt(12345), name |-> Str("John Doe"),
               emails |-> List(<<Dict([email |-> Str("a@b.co")])>>),
               phone_numbers |-> List(<<Dict([number |-> Str("+1")])>>),
               addresses |-> List(<<Street>>),
               date_created |-> PyInt(1700), date_modified |-> PyInt(1900)]
        [] cls = "Company" ->
              [id |-> PyInt(12345), name |-> Str("Example Corp"),
               phone_numbers |-> List(<<Dict([number |-> Str("+1")])>>),
               websites |-> List(<<Dict([url |-> Str("https://a.co")])>>),
               addresses |-> List(<<Street>>),
               date_created |-> PyInt(1700), date_modified |-> PyInt(1900)]
        [] cls = "Opportunity" ->
              [id |-> PyInt(12345), name |-> Str("Deal"), status |-> Str("Open"),
               monetary_value |-> PyInt(1000), close_date |-> PyInt(1500),
               date_created |-> PyInt(1700), date_modified |-> PyInt(1900)]
        [] cls = "Task" ->
              [id |-> PyInt(12345), name |-> Str("Call"), status |-> Str("Open"),
               due_date |-> PyInt(1500),
               date_created |-> PyInt(1700), date_modified |-> PyInt(1900)]

\* An empty response, one with nothing but a name, and the full one.
WireBases(cls) == { <<>>, [name |-> Str("A")], FullWire(cls) }

SampleWire(cls) == Variants(WireBases(cls), WirePairs(cls), MaxFields)

(***************************************************************************)
(* Initial state: a BatchAPI has been constructed, no call has been made.  *)
(***************************************************************************)
InitBatch ==
    /\ coro = [c \in Runs |-> "none"]
    /\ entity_type = [c \in Runs |-> "opportunities"]
    /\ records = [c \in Runs |-> <<>>]
    /\ continue_on_error = [c \in Runs |-> TRUE]
    /\ return_errors = [c \in Runs |-> TRUE]
    /\ pc = [c \in Runs |-> "idle"]
    /\ idx = [c \in Runs |-> 1]
    /\ results = [c \in Runs |-> <<>>]
    /\ succeeded = [c \in Runs |-> 0]
    /\ failed = [c \in Runs |-> 0]
    /\ outcome = [c \in Runs |-> <<>>]
    /\ pending = [c \in Runs |-> <<>>]
    /\ calls = <<>>
    /\ replies = [c \in Runs |-> <<>>]
    /\ origin = [c \in Runs |-> <<>>]
    /\ script = <<>>

\* A RelatedAPI has been constructed, no call has been made.
InitRelated ==
    /\ rpc = "idle"
    /\ rargs = Nothing
    /\ rcalls = <<>>
    /\ rresponse = Nothing
    /\ rresult = Nothing

\* No model has been constructed or marshaled.
InitMarshal ==
    /\ mcls = "Person"
    /\ kwargs = Nothing
    /\ instance = Nothing
    /\ payload = Nothing
    /\ wire = Nothing
    /\ wire0 = Nothing
    /\ decoded = <<>>

\* CopperClient.__init__: the client holds the httpx.Client it constructed.
InitClient ==
    /\ session = 1
    /\ clients = 1
    /\ oplog = <<>>

Init == InitBatch /\ InitRelated /\ InitMarshal /\ InitClient

\* Enter with results living on the BatchAPI instance, carried over from
\* the first call instead of being created afresh.
EnterKeepsResults(c, o, et, recs, coe, re) ==
    /\ coro' = [coro EXCEPT ![c] = o]
    /\ entity_type' = [entity_type EXCEPT ![c] = et]
    /\ records' = [records EXCEPT ![c] = recs]
    /\ continue_on_error' = [continue_on_error EXCEPT ![c] = coe]
    /\ return_errors' = [return_errors EXCEPT ![c] = re]
    /\ pc' = [pc EXCEPT ![c] = "loop"]
    /\ idx' = [idx EXCEPT ![c] = 1]
    /\ results' = [results EXCEPT ![c] = results[1]]
    /\ succeeded' = [succeeded EXCEPT ![c] = 0]
    /\ failed' = [failed EXCEPT ![c] = 0]
    /\ UNCHANGED <<outcome, pending, calls, replies, origin, script>>

(***************************************************************************)
(* Invocation: the coroutine's prologue (results = [], succeeded = 0,      *)
(* failed = 0) with the arguments bound.                                   *)
(***************************************************************************)
Enter(c, o, et, recs, coe, re) ==
    /\ coro' = [coro EXCEPT ![c] = o]
    /\ entity_type' = [entity_type EXCEPT ![c] = et]
    /\ records' = [records EXCEPT ![c] = recs]
    /\ continue_on_error' = [continue_on_error EXCEPT ![c] = coe]
    /\ return_errors' = [return_errors EXCEPT ![c] = re]
    /\ pc' = [pc EXCEPT ![c] = "loop"]
    /\ idx' = [idx EXCEPT ![c] = 1]
    /\ results' = [results EXCEPT ![c] = <<>>]
    /\ succeeded' = [succeeded EXCEPT ![c] = 0]
    /\ failed' = [failed EXCEPT ![c] = 0]
    /\ UNCHANGED <<outcome, pending, calls, replies, origin, script>>

create(c) ==
    /\ pc[c] = "idle"
    /\ \E et \in EntityTypes, recs \in SeqsUpTo(SampleData, MaxLen), coe, re \in BOOLEAN :
        Enter(c, "create", et, recs, coe, re)
    /\ UNCHANGED <<related_vars, marshal_vars, client_vars>>

update(c) ==
    /\ pc[c] = "idle"
    /\ \E et \in EntityTypes, recs \in SeqsUpTo(SampleUpdates, MaxLen), coe, re \in BOOLEAN :
        Enter(c, "update", et, recs, coe, re)
    /\ UNCHANGED <<related_vars, marshal_vars, client_vars>>

delete(c) ==
    /\ pc[c] = "idle"
    /\ \E et \in EntityTypes, ids \in SeqsUpTo(SampleIds, MaxLen), coe, re \in BOOLEAN :
        Enter(c, "delete", et, ids, coe, re)
    /\ UNCHANGED <<related_vars, marshal_vars, client_vars>>

(***************************************************************************)
(* The transport.  A call is logged when it is made and stays pending      *)
(* until the transport answers it.                                         *)
(***************************************************************************)
\* Send without the await: the call is started and the loop goes on.
SendWithoutAwait(c, method, path) ==
    LET call == [run |-> c, method |-> method, path |-> path, pos |-> idx[c]] IN
    /\ pending' = [pending EXCEPT ![c] = Append(@, call)]
    /\ calls' = Append(calls, call)
    /\ pc' = [pc EXCEPT ![c] = "loop"]

\* await self.client.<method>(path, ...): the call is made, the coroutine suspends.
Send(c, method, path) ==
    LET call == [run |-> c, method |-> method, path |-> path, pos |-> idx[c]] IN
    /\ pending' = [pending EXCEPT ![c] = Append(@, call)]
    /\ calls' = Append(calls, call)
    /\ pc' = [pc EXCEPT ![c] = "await"]

\* The answers the transport may give to the next call of run c: the k-th
\* call of a run gets the scripted answer when the script reaches that far
\* (a mock's side_effect list), any answer otherwise.
NextAnswers(c) ==
    LET k == Len(replies[c]) + 1 IN
    IF k <= Len(script) THEN {script[k]} ELSE Answers

\* The pending call of run c completes with answer a.
Complete(c, a) ==
    /\ pending[c] # <<>>
    /\ pending' = [pending EXCEPT ![c] = Tail(@)]
    /\ replies' = [replies EXCEPT ![c] = Append(@, a)]
    /\ script' = IF Len(replies[c]) + 1 <= Len(script) THEN script ELSE Append(script, a)

(***************************************************************************)
(* The loop body shared by create, update and delete.                      *)
(***************************************************************************)
\* Succeed with the entry appended and the counter left as it was.
SucceedUncounted(c, entry) ==
    /\ results' = [results EXCEPT ![c] = Append(@, entry)]
    /\ origin' = [origin EXCEPT ![c] = Append(@, idx[c])]
    /\ idx' = [idx EXCEPT ![c] = @ + 1]
    /\ pc' = [pc EXCEPT ![c] = "loop"]
    /\ UNCHANGED <<succeeded, failed>>

\* results.append(entry); succeeded += 1; on to the next record.
Succeed(c, entry) ==
    /\ results' = [results EXCEPT ![c] = Append(@, entry)]
    /\ origin' = [origin EXCEPT ![c] = Append(@, idx[c])]
    /\ succeeded' = [succeeded EXCEPT ![c] = @ + 1]
    /\ idx' = [idx EXCEPT ![c] = @ + 1]
    /\ pc' = [pc EXCEPT ![c] = "loop"]
    /\ UNCHANGED failed

\* Except with the break taken on every failure.
ExceptAlwaysBreaks(c, entry) ==
    /\ failed' = [failed EXCEPT ![c] = @ + 1]
    /\ results' = [results EXCEPT ![c] = IF return_errors[c] THEN Append(@, entry) ELSE @]
    /\ origin' = [origin EXCEPT ![c] = IF return_errors[c] THEN Append(@, idx[c]) ELSE @]
    /\ pc' = [pc EXCEPT ![c] = "break"]
    /\ UNCHANGED <<idx, succeeded>>

\* Except with the break never taken.
ExceptNeverBreaks(c, entry) ==
    /\ failed' = [failed EXCEPT ![c] = @ + 1]
    /\ results' = [results EXCEPT ![c] = IF return_errors[c] THEN Append(@, entry) ELSE @]
    /\ origin' = [origin EXCEPT ![c] = IF return_errors[c] THEN Append(@, idx[c]) ELSE @]
    /\ pc' = [pc EXCEPT ![c] = "loop"]
    /\ idx' = [idx EXCEPT ![c] = @ + 1]
    /\ UNCHANGED succeeded

\* Except with the exception re-raised where the code breaks.
ExceptReraises(c, entry) ==
    /\ failed' = [failed EXCEPT ![c] = @ + 1]
    /\ results' = [results EXCEPT ![c] = IF return_errors[c] THEN Append(@, entry) ELSE @]
    /\ origin' = [origin EXCEPT ![c] = IF return_errors[c] THEN Append(@, idx[c]) ELSE @]
    /\ IF ~continue_on_error[c]
          THEN pc' = [pc EXCEPT ![c] = "raised"] /\ UNCHANGED idx
          ELSE pc' = [pc EXCEPT ![c] = "loop"] /\ idx' = [idx EXCEPT ![c] = @ + 1]
    /\ UNCHANGED succeeded

\* Except with one retry of a record whose transport call failed.
ExceptRetriesOnce(c, entry) ==
    /\ failed' = [failed EXCEPT ![c] = @ + 1]
    /\ results' = [results EXCEPT ![c] = IF return_errors[c] THEN Append(@, entry) ELSE @]
    /\ origin' = [origin EXCEPT ![c] = IF return_errors[c] THEN Append(@, idx[c]) ELSE @]
    /\ IF ~continue_on_error[c]
          THEN pc' = [pc EXCEPT ![c] = "break"] /\ UNCHANGED idx
          ELSE /\ pc' = [pc EXCEPT ![c] = "loop"]
               /\ idx' = [idx EXCEPT ![c] =
                      IF Cardinality({k \in DOMAIN calls :
                              calls[k].run = c /\ calls[k].pos = idx[c]}) = 1
                         THEN @ ELSE @ + 1]
    /\ UNCHANGED succeeded

\* Except with the entry appended whatever return_errors says.
ExceptAlwaysAppends(c, entry) ==
    /\ failed' = [failed EXCEPT ![c] = @ + 1]
    /\ results' = [results EXCEPT ![c] = Append(@, entry)]
    /\ origin' = [origin EXCEPT ![c] = Append(@, idx[c])]
    /\ IF ~continue_on_error[c]
          THEN pc' = [pc EXCEPT ![c] = "break"] /\ UNCHANGED idx
          ELSE pc' = [pc EXCEPT ![c] = "loop"] /\ idx' = [idx EXCEPT ![c] = @ + 1]
    /\ UNCHANGED succeeded

\* except Exception as e: failed += 1; append the entry if return_errors;
\* break if not continue_on_error.
Except(c, entry) ==
    /\ failed' = [failed EXCEPT ![c] = @ + 1]
    /\ results' = [results EXCEPT ![c] = IF return_errors[c] THEN Append(@, entry) ELSE @]
    /\ origin' = [origin EXCEPT ![c] = IF return_errors[c] THEN Append(@, idx[c]) ELSE @]
    /\ IF ~continue_on_error[c]
          THEN pc' = [pc EXCEPT ![c] = "break"] /\ UNCHANGED idx
          ELSE pc' = [pc EXCEPT ![c] = "loop"] /\ idx' = [idx EXCEPT ![c] = @ + 1]
    /\ UNCHANGED succeeded

\* dict.get(key): the value, or None when the key is missing.
Get(d, k) == IF k \in DOMAIN d THEN d[k] ELSE None

\* str(e) of the exceptions the loop body can meet.
ValidationMessage == "validation error"
KeyErrorMessage(k) == IF k = "id" THEN "'id'" ELSE "'data'"

\* The success entry of create with the id taken from the record.
create_success_record_id(record, response) == [success |-> TRUE, id |-> Get(record, "id")]

create_success(record, response) == [success |-> TRUE, id |-> response.id]

\* The success entry of update with the id taken from the response.
update_success_response_id(record, response) == [success |-> TRUE, id |-> Get(response, "id")]

update_success(record, response) == [success |-> TRUE, id |-> record.id]

delete_success(record_id, response) == [success |-> TRUE, id |-> record_id]

create_error(message, record) ==
    [success |-> FALSE, error |-> [message |-> message, details |-> record]]

update_error(message, record) ==
    [success |-> FALSE, id |-> Get(record, "id"),
     error |-> [message |-> message, details |-> record]]

delete_error(message, record_id) ==
    [success |-> FALSE, id |-> record_id, error |-> [message |-> message]]

Args == <<coro, entity_type, records, continue_on_error, return_errors>>

\* The coroutine of run c has been called.
Started(c) == pc[c] # "idle"

(***************************************************************************)
(* BatchAPI.create: one iteration of the loop, split at its await.         *)
(***************************************************************************)
create_iter(c) ==
    /\ pc[c] = "loop" /\ coro[c] = "create" /\ idx[c] <= Len(records[c])
    /\ LET record == records[c][idx[c]]
           model_class == _get_model_class(entity_type[c]) IN
       IF Validates(model_class, record)
          THEN /\ Send(c, "POST", <<entity_type[c]>>)
               /\ UNCHANGED <<results, origin, succeeded, failed, idx>>
          ELSE /\ Except(c, create_error(ValidationMessage, record))
               /\ UNCHANGED <<pending, calls>>
    /\ UNCHANGED <<Args, outcome, replies, script>>
    /\ UNCHANGED <<related_vars, marshal_vars, client_vars>>

create_resume(c) ==
    /\ pc[c] = "await" /\ coro[c] = "create"
    /\ \E a \in NextAnswers(c) :
        /\ Complete(c, a)
        /\ LET record == records[c][idx[c]] IN
           IF a.kind = "raise"
              THEN Except(c, create_error(a.message, record))
              ELSE IF "id" \in DOMAIN a.json
                      THEN Succeed(c, create_success(record, a.json))
                      ELSE Except(c, create_error(KeyErrorMessage("id"), record))
    /\ UNCHANGED <<Args, outcome, calls>>
    /\ UNCHANGED <<related_vars, marshal_vars, client_vars>>

(***************************************************************************)
(* BatchAPI.update                                                         *)
(***************************************************************************)
update_iter(c) ==
    /\ pc[c] = "loop" /\ coro[c] = "update" /\ idx[c] <= Len(records[c])
    /\ LET record == records[c][idx[c]]
           model_class == _get_model_class(entity_type[c]) IN
       IF "id" \notin DOMAIN record
          THEN /\ Except(c, update_error(KeyErrorMessage("id"), record))
               /\ UNCHANGED <<pending, calls>>
          ELSE IF "data" \notin DOMAIN record
          THEN /\ Except(c, update_error(KeyErrorMessage("data"), record))
               /\ UNCHANGED <<pending, calls>>
          ELSE IF Validates(model_class, record.data)
          THEN /\ Send(c, "PUT", <<entity_type[c], record.id>>)
               /\ UNCHANGED <<results, origin, succeeded, failed, idx>>
          ELSE /\ Except(c, update_error(ValidationMessage, record))
               /\ UNCHANGED <<pending, calls>>
    /\ UNCHANGED <<Args, outcome, replies, script>>
    /\ UNCHANGED <<related_vars, marshal_vars, client_vars>>

update_resume(c) ==
    /\ pc[c] = "await" /\ coro[c] = "update"
    /\ \E a \in NextAnswers(c) :
        /\ Complete(c, a)
        /\ LET record == records[c][idx[c]] IN
           IF a.kind = "raise"
              THEN Except(c, update_error(a.message, record))
              ELSE Succeed(c, update_success(record, a.json))
    /\ UNCHANGED <<Args, outcome, calls>>
    /\ UNCHANGED <<related_vars, marshal_vars, client_vars>>

(***************************************************************************)
(* BatchAPI.delete                                                         *)
(***************************************************************************)
delete_iter(c) ==
    /\ pc[c] = "loop" /\ coro[c] = "delete" /\ idx[c] <= Len(records[c])
    /\ LET record_id == records[c][idx[c]] IN
       Send(c, "DELETE", <<entity_type[c], record_id>>)
    /\ UNCHANGED <<Args, outcome, replies, script, results, origin, succeeded, failed, idx>>
    /\ UNCHANGED <<related_vars, marshal_vars, client_vars>>

delete_resume(c) ==
    /\ pc[c] = "await" /\ coro[c] = "delete"
    /\ \E a \in NextAnswers(c) :
        /\ Complete(c, a)
        /\ LET record_id == records[c][idx[c]] IN
           IF a.kind = "raise"
              THEN Except(c, delete_error(a.message, record_id))
              ELSE Succeed(c, delete_success(record_id, a.json))
    /\ UNCHANGED <<Args, outcome, calls>>
    /\ UNCHANGED <<related_vars, marshal_vars, client_vars>>

(***************************************************************************)
(* The return statement of the three coroutines, reached when the loop is  *)
(* exhausted or left by break.                                             *)
(***************************************************************************)
Return(c) ==
    /\ \/ pc[c] = "loop" /\ idx[c] > Len(records[c])
       \/ pc[c] = "break"
    /\ outcome' = [outcome EXCEPT ![c] =
            [results |-> results[c],
             summary |-> [total |-> Len(records[c]),
                          succeeded |-> succeeded[c],
                          failed |-> failed[c]]]]
    /\ pc' = [pc EXCEPT ![c] = "done"]
    /\ UNCHANGED <<Args, idx, results, origin, succeeded, failed, pending, calls, replies, script>>
    /\ UNCHANGED <<related_vars, marshal_vars, client_vars>>

(***************************************************************************)
(* One batch call against a transport that answers as it pleases.          *)
(***************************************************************************)
Next ==
    \/ create(1)
    \/ update(1)
    \/ delete(1)
    \/ create_iter(1)
    \/ create_resume(1)
    \/ update_iter(1)
    \/ update_resume(1)
    \/ delete_iter(1)
    \/ delete_resume(1)
    \/ Return(1)

Spec == Init /\ [][Next]_vars

(***************************************************************************)
(* The same call made twice: once run 1 has returned, run 2 repeats its    *)
(* call with the same arguments, and the transport gives the k-th call of  *)
(* both runs the same answer (script).                                     *)
(***************************************************************************)
Replay(c) ==
    /\ pc[c] = "idle"
    /\ \E first \in Runs \ {c} :
        /\ pc[first] = "done"
        /\ Enter(c, coro[first], entity_type[first], records[first],
                 continue_on_error[first], return_errors[first])
    /\ UNCHANGED <<related_vars, marshal_vars, client_vars>>

NextDet ==
    \/ Next
    \/ Replay(2)
    \/ create_iter(2)
    \/ create_resume(2)
    \/ update_iter(2)
    \/ update_resume(2)
    \/ delete_iter(2)
    \/ delete_resume(2)
    \/ Return(2)

SpecDet == Init /\ [][NextDet]_vars

(***************************************************************************)
(* A batch call that is let run: the event loop goes on with a coroutine   *)
(* that is ready, and every transport call is answered sooner or later,    *)
(* by a return or by an exception.                                         *)
(***************************************************************************)
Step(c) ==
    \/ create_iter(c)
    \/ create_resume(c)
    \/ update_iter(c)
    \/ update_resume(c)
    \/ delete_iter(c)
    \/ delete_resume(c)
    \/ Return(c)

SpecLive == Init /\ [][Next]_vars /\ WF_vars(Step(1))

(***************************************************************************)
(* Cancellation.  A task is cancelled where its coroutine is suspended:    *)
(* asyncio raises CancelledError at the await.  CancelledError derives     *)
(* from BaseException (python_requires >= 3.8), so "except Exception" does *)
(* not catch it: it leaves the loop and the coroutine, no statement of the *)
(* body runs any more, nothing is returned.                                *)
(***************************************************************************)
\* Cancel with the failure counted on the way out, no entry appended.
CancelHalfRecorded(c) ==
    /\ pc[c] = "await"
    /\ pending' = [pending EXCEPT ![c] = Tail(@)]
    /\ pc' = [pc EXCEPT ![c] = "cancelled"]
    /\ failed' = [failed EXCEPT ![c] = @ + 1]
    /\ UNCHANGED <<Args, idx, results, origin, succeeded, outcome, calls, replies, script>>
    /\ UNCHANGED <<related_vars, marshal_vars, client_vars>>

Cancel(c) ==
    /\ pc[c] = "await"
    /\ pending' = [pending EXCEPT ![c] = Tail(@)]
    /\ pc' = [pc EXCEPT ![c] = "cancelled"]
    /\ UNCHANGED <<Args, idx, results, origin, succeeded, failed, outcome, calls, replies, script>>
    /\ UNCHANGED <<related_vars, marshal_vars, client_vars>>

NextCan ==
    \/ Next
    \/ Cancel(1)

SpecCan == Init /\ [][NextCan]_vars

(***************************************************************************)
(* Two batch calls on the same BatchAPI, interleaved at their awaits: the  *)
(* event loop runs one coroutine until it suspends or returns, then any    *)
(* coroutine that can go on.                                               *)
(***************************************************************************)
MaxPar == 1             \* longest input sequence of two interleaved calls

create_par(c) == create(c) /\ Len(records'[c]) <= MaxPar

update_par(c) == update(c) /\ Len(records'[c]) <= MaxPar

delete_par(c) == delete(c) /\ Len(records'[c]) <= MaxPar

NextPar ==
    \/ create_par(1)
    \/ update_par(1)
    \/ delete_par(1)
    \/ create_iter(1)
    \/ create_resume(1)
    \/ update_iter(1)
    \/ update_resume(1)
    \/ delete_iter(1)
    \/ delete_resume(1)
    \/ Return(1)
    \/ create_par(2)
    \/ update_par(2)
    \/ delete_par(2)
    \/ create_iter(2)
    \/ create_resume(2)
    \/ update_iter(2)
    \/ update_resume(2)
    \/ delete_iter(2)
    \/ delete_resume(2)
    \/ Return(2)

SpecPar == Init /\ [][NextPar]_vars

TypeOK ==
    /\ \A c \in Runs : pc[c] \in {"idle", "loop", "await", "break", "done", "raised", "cancelled"}
    /\ \A c \in Runs : succeeded[c] \in Nat /\ failed[c] \in Nat

(***************************************************************************)
(* RelatedAPI (src/mcp_copper/api/related.py): get_related_records and     *)
(* get_entity_activities, each split at its await.  Neither has a try      *)
(* block: whatever is raised inside ends the call and reaches the caller.  *)
(***************************************************************************)
MaxItems == 2           \* longest data list of a response

RelatedTypes == EntityTypes \cup {"activities"}

RelatedIds == {123, 456}

\* Keyword arguments of the two coroutines; one that is not given is None.
PageKeywords == {"page_size", "page_number"}
FilterKeywords == {"activity_types", "date_from", "date_to"} \cup PageKeywords

ActivityTypeLists == { <<>>, <<"call", "email">> }
DateStrings == { "", "2024-01-01" }
PageSizes == { 0, 20 }
PageNumbers == { 1 }

\* The elements a response's data list is made of.
RelatedItems ==
    { [id |-> PyInt(123), name |-> Str("Related Opportunity"), status |-> Str("Open")],
      [id |-> PyInt(124), name |-> Str("B")],
      [id |-> PyInt(1), type |-> Str("call")],
      [id |-> PyInt(125), name |-> Str("C"), date_created |-> PyInt(1700),
       phone_numbers |-> NumberAndBogus] }

Metadatas == { [total_count |-> 1, has_more |-> FALSE], [total_count |-> 40, has_more |-> TRUE] }

\* What the GET can do: return a JSON dict, with or without the keys data
\* and metadata, or raise.
RelatedAnswers ==
    { [kind |-> "return", json |-> [data |-> items, metadata |-> m]] :
            items \in SeqsUpTo(RelatedItems, MaxItems), m \in Metadatas }
    \cup { [kind |-> "return", json |-> [data |-> items]] :
            items \in SeqsUpTo(RelatedItems, MaxItems) }
    \cup { [kind |-> "return", json |-> [metadata |-> m]] : m \in Metadatas }
    \cup { [kind |-> "raise", message |-> "API Error"] }

\* The keyword arguments of a call: the keywords in S with values taken from
\* the tuple of choices.
Given(S, at, df, dt, ps, pn) ==
    [k \in S |-> CASE k = "activity_types" -> at
                   [] k = "date_from"      -> df
                   [] k = "date_to"        -> dt
                   [] k = "page_size"      -> ps
                   [] k = "page_number"    -> pn]

\* bool(v) of a filter value
FilterTruthy(k, v) ==
    CASE k = "activity_types"           -> Len(v) # 0
      [] k \in {"date_from", "date_to"} -> v # ""
      [] OTHER                          -> v # 0

\* params of get_related_records: page_size and page_number when not None.
related_params(given) == [k \in DOMAIN given \cap PageKeywords |-> given[k]]

\* params of get_entity_activities with every given filter passed on.
activities_params_verbatim(given) == given

\* params of get_entity_activities: the three filters when truthy, page_size
\* and page_number when not None.
activities_params(given) ==
    [k \in {x \in DOMAIN given : x \in PageKeywords \/ FilterTruthy(x, given[x])} |-> given[k]]

\* The returned dict of the activities shape with the records under data.
activities_result_under_data(response) ==
    IF "data" \notin DOMAIN response \/ "metadata" \notin DOMAIN response
       THEN Raise("KeyError")
       ELSE Ok([data |-> response.data, metadata |-> response.metadata])

\* {"activities": response["data"], "metadata": response["metadata"]}
activities_result(response) ==
    IF "data" \notin DOMAIN response \/ "metadata" \notin DOMAIN response
       THEN Raise("KeyError")
       ELSE Ok([activities |-> response.data, metadata |-> response.metadata])

\* The model class taken from the entity the records are related to.
related_model_class_of_entity(args) == _get_model_class(args.entity_type)

\* model_class = self._get_model_class(related_type)
related_model_class(args) == _get_model_class(args.related_type)

\* data = [model_class.from_api(item) for item in response["data"]], then
\* {"data": [item.dict() for item in data], "metadata": response["metadata"]}
related_result(args, response) ==
    IF "data" \notin DOMAIN response THEN Raise("KeyError")
    ELSE LET cls == related_model_class(args)
             items == response.data
             made == [i \in DOMAIN items |-> from_api(cls, items[i]).result]
             failing == {i \in DOMAIN items : made[i].kind = "raise"}
             first == CHOOSE i \in failing : \A j \in failing : i <= j
         IN  IF failing # {} THEN Raise(made[first].exc)
             ELSE IF "metadata" \notin DOMAIN response THEN Raise("KeyError")
             ELSE Ok([data |-> [i \in DOMAIN items |-> dict(made[i].value, FALSE)],
                      metadata |-> response.metadata])

\* A transport failure answered by an empty result.
transport_failure_swallowed(a) == Ok([data |-> <<>>, metadata |-> <<>>])

\* An exception raised by the awaited GET leaves the coroutine as it is.
transport_failure(a) == Raise(a.message)

\* response = await self.client.get(path, params=params): the call is made.
related_get(path, params) ==
    /\ rcalls' = Append(rcalls, [method |-> "GET", path |-> path, params |-> params])
    /\ rpc' = "await"

get_related_records ==
    /\ rpc = "idle"
    /\ \E et \in EntityTypes, id \in RelatedIds, rt \in RelatedTypes,
          S \in SUBSET PageKeywords, ps \in PageSizes, pn \in PageNumbers :
        LET given == Given(S, <<>>, "", "", ps, pn) IN
        /\ rargs' = [fn |-> "get_related_records", entity_type |-> et, entity_id |-> id,
                     related_type |-> rt, given |-> given]
        /\ IF rt = "activities"
              THEN related_get(<<et, id, "activities">>, related_params(given))
              ELSE related_get(<<et, id, "related", rt>>, related_params(given))
    /\ UNCHANGED <<rresponse, rresult, batch_vars, marshal_vars, client_vars>>

get_related_records_resume ==
    /\ rpc = "await" /\ rargs.fn = "get_related_records"
    /\ \E a \in RelatedAnswers :
        LET r == IF a.kind = "raise" THEN transport_failure(a)
                 ELSE IF rargs.related_type = "activities" THEN activities_result(a.json)
                 ELSE related_result(rargs, a.json)
        IN  /\ rresponse' = a
            /\ rresult' = r
            /\ rpc' = IF r.kind = "ok" THEN "returned" ELSE "raised"
    /\ UNCHANGED <<rargs, rcalls, batch_vars, marshal_vars, client_vars>>

get_entity_activities ==
    /\ rpc = "idle"
    /\ \E et \in EntityTypes, id \in RelatedIds, S \in SUBSET FilterKeywords,
          at \in ActivityTypeLists, df \in DateStrings, dt \in DateStrings,
          ps \in PageSizes, pn \in PageNumbers :
        LET given == Given(S, at, df, dt, ps, pn) IN
        /\ rargs' = [fn |-> "get_entity_activities", entity_type |-> et, entity_id |-> id,
                     given |-> given]
        /\ related_get(<<et, id, "activities">>, activities_params(given))
    /\ UNCHANGED <<rresponse, rresult, batch_vars, marshal_vars, client_vars>>

get_entity_activities_resume ==
    /\ rpc = "await" /\ rargs.fn = "get_entity_activities"
    /\ \E a \in RelatedAnswers :
        LET r == IF a.kind = "raise" THEN transport_failure(a) ELSE activities_result(a.json)
        IN  /\ rresponse' = a
            /\ rresult' = r
            /\ rpc' = IF r.kind = "ok" THEN "returned" ELSE "raised"
    /\ UNCHANGED <<rargs, rcalls, batch_vars, marshal_vars, client_vars>>

NextRel ==
    \/ get_related_records
    \/ get_related_records_resume
    \/ get_entity_activities
    \/ get_entity_activities_resume

SpecRel == Init /\ [][NextRel]_vars

(***************************************************************************)
(* The marshaling layer on its own: a constructor call, to_api on the      *)
(* instance, from_api on the payload (the round trip), and from_api on a   *)
(* wire dict, repeated on the same dict object.                            *)
(***************************************************************************)
InitMar ==
    /\ InitBatch
    /\ InitRelated
    /\ InitClient
    /\ mcls \in ModelClasses
    /\ \/ /\ kwargs \in {Ok(d) : d \in SampleKwargs(mcls)}
          /\ wire = Nothing
       \/ /\ kwargs = Nothing
          /\ wire \in {Ok(d) : d \in SampleWire(mcls)}
    /\ wire0 = wire
    /\ instance = Nothing
    /\ payload = Nothing
    /\ decoded = <<>>

\* instance = model_class(kwargs as keyword arguments)
construct ==
    /\ kwargs # Nothing /\ instance = Nothing
    /\ instance' = Construct(mcls, kwargs.value)
    /\ UNCHANGED <<mcls, kwargs, payload, wire, wire0, decoded, batch_vars, related_vars, client_vars>>

\* payload = instance.to_api(); the payload is the dict from_api is given next.
to_api_instance ==
    /\ instance.kind = "ok" /\ payload = Nothing
    /\ payload' = to_api(instance.value)
    /\ wire' = IF payload'.kind = "ok" THEN payload' ELSE wire
    /\ wire0' = wire'
    /\ UNCHANGED <<mcls, kwargs, instance, decoded, batch_vars, related_vars, client_vars>>

\* payload = entity.to_api() for the entity the first from_api call returned.
to_api_decoded ==
    /\ kwargs = Nothing /\ payload = Nothing
    /\ decoded # <<>> /\ decoded[1].kind = "ok"
    /\ payload' = to_api(decoded[1].value)
    /\ UNCHANGED <<mcls, kwargs, instance, wire, wire0, decoded, batch_vars, related_vars, client_vars>>

\* model_class.from_api(wire): the result is kept, the dict is left as the call left it.
from_api_wire ==
    /\ wire.kind = "ok" /\ Len(decoded) < MaxDecodes
    /\ LET r == from_api(mcls, wire.value) IN
        /\ decoded' = Append(decoded, r.result)
        /\ wire' = Ok(r.data)
    /\ UNCHANGED <<mcls, kwargs, instance, payload, wire0, batch_vars, related_vars, client_vars>>

NextMar ==
    \/ construct
    \/ to_api_instance
    \/ to_api_decoded
    \/ from_api_wire

SpecMar == InitMar /\ [][NextMar]_vars

(***************************************************************************)
(* CopperClient (src/mcp_copper/client.py).  self.client is the            *)
(* httpx.Client made by the constructor: a synchronous client, identified  *)
(* here by its number.  The class body defines close, _request, get, post, *)
(* put and delete twice; a class body runs top to bottom, so each name is  *)
(* bound to its later definition.                                          *)
(***************************************************************************)
MaxOps == 3             \* longest sequence of client operations

RATE_LIMIT_max_retries == 3

\* The two definitions of _request, in the order of the class body.
_request_defs ==
    << [decorated |-> TRUE, coroutine |-> FALSE],
       [decorated |-> FALSE, coroutine |-> TRUE] >>

\* The attribute lookup self._request: the definition bound last.
_request_bound == _request_defs[Len(_request_defs)]

\* @retry(stop=stop_after_attempt(RATE_LIMIT["max_retries"]), reraise=True):
\* the attempts one call of the function makes at most; one without it.
stop_after_attempt(definition) ==
    IF definition.decorated THEN RATE_LIMIT_max_retries ELSE 1

\* The attributes of an httpx.Client that the client code asks for.
httpx_Client == {"request", "close"}

\* What one attempt on the wire can do: an httpx.Response comes back, or
\* httpx raises (connection refused, timeout).
TransportOutcomes == {"response", "HTTPError"}

Methods == {"GET", "POST", "PUT", "DELETE"}

Logged(name, result, attempts, on) ==
    [call |-> name, result |-> result, attempts |-> attempts, on |-> on]

\* async def connect: a client is made only when there is none.
connect ==
    /\ Len(oplog) < MaxOps
    /\ IF session = None
          THEN session' = clients + 1 /\ clients' = clients + 1
          ELSE UNCHANGED <<session, clients>>
    /\ oplog' = Append(oplog, Logged("connect", "ok", 0, session'))
    /\ UNCHANGED <<batch_vars, related_vars, marshal_vars>>

\* async def close: await self.client.aclose(), then self.client = None.
\* The attribute lookup comes first and raises AttributeError when the
\* object has no aclose; the assignment is then not reached.
close ==
    /\ Len(oplog) < MaxOps
    /\ IF session # None /\ "aclose" \in httpx_Client
          THEN /\ session' = None
               /\ oplog' = Append(oplog, Logged("close", "ok", 0, None))
          ELSE /\ UNCHANGED session
               /\ oplog' = Append(oplog, Logged("close", "AttributeError", 0, session))
    /\ UNCHANGED clients
    /\ UNCHANGED <<batch_vars, related_vars, marshal_vars>>

\* __exit__ calls self.close() without awaiting it: the coroutine object is
\* made and dropped, none of its body runs.
__exit__ ==
    /\ Len(oplog) < MaxOps
    /\ oplog' = Append(oplog, Logged("__exit__", "ok", 0, session))
    /\ UNCHANGED <<session, clients>>
    /\ UNCHANGED <<batch_vars, related_vars, marshal_vars>>

\* The attempts of one call: every attempt but the last has raised, and a
\* raising attempt is the last only when no attempt is left.
Attempts(most) ==
    { outs \in SeqsUpTo(TransportOutcomes, most) \ {<<>>} :
        /\ \A k \in 1..(Len(outs) - 1) : outs[k] = "HTTPError"
        /\ outs[Len(outs)] = "HTTPError" => Len(outs) = most }

\* async def _request: connect when there is no client, then
\* response = await self.client.request(...).  The synchronous request is
\* made when the operand of await is evaluated; what it raises reaches the
\* caller, and a Response is not awaitable, so await raises TypeError.
_request(method) ==
    /\ Len(oplog) < MaxOps
    /\ \E outs \in Attempts(stop_after_attempt(_request_bound)) :
        LET on == IF session = None THEN clients + 1 ELSE session
            result == IF outs[Len(outs)] = "HTTPError" THEN "HTTPError"
                      ELSE IF _request_bound.coroutine THEN "TypeError"
                      ELSE "ok" IN
        /\ session' = on
        /\ clients' = IF session = None THEN clients + 1 ELSE clients
        /\ oplog' = Append(oplog, Logged(method, result, Len(outs), on))
    /\ UNCHANGED <<batch_vars, related_vars, marshal_vars>>

get == _request("GET")

post == _request("POST")

put == _request("PUT")

client_delete == _request("DELETE")

NextCli ==
    \/ connect
    \/ close
    \/ __exit__
    \/ get
    \/ post
    \/ put
    \/ client_delete

SpecCli == Init /\ [][NextCli]_vars

(***************************************************************************)
(* Vocabulary of the properties.                                           *)
(***************************************************************************)
Last(q) == q[Len(q)]

\* The transport calls of run c, in the order they were made.
CallsOf(c) == SelectSeq(calls, LAMBDA k : k.run = c)

\* The run has met a failure and was asked to stop at the first one.
Stopped(c) == Started(c) /\ ~continue_on_error[c] /\ failed[c] > 0

\* Entry e is the failure entry of the record at position p of run c.
IsFailureEntryOf(c, e, p) ==
    /\ e.success = FALSE
    /\ CASE coro[c] = "create" -> e.error.details = records[c][p]
         [] coro[c] = "update" -> /\ e.id = Get(records[c][p], "id")
                                /\ e.error.details = records[c][p]
         [] coro[c] = "delete" -> e.id = records[c][p]

(***************************************************************************)
(* C1.  A batch call with continue_on_error=true returns a summary whose   *)
(* total is the input length and whose succeeded + failed equals total,    *)
(* and with return_errors=true results has exactly total entries.          *)
(***************************************************************************)
C1_SummaryAddsUp ==
    \A c \in Runs :
        (pc[c] = "done" /\ continue_on_error[c]) =>
            /\ outcome[c].summary.total = Len(records[c])
            /\ outcome[c].summary.succeeded + outcome[c].summary.failed
                    = outcome[c].summary.total
            /\ return_errors[c] => Len(outcome[c].results) = outcome[c].summary.total

C1_Witness ==
    /\ pc[1] = "done" /\ continue_on_error[1] /\ return_errors[1]
    /\ Len(records[1]) = MaxLen
    /\ outcome[1].summary.succeeded > 0
    /\ outcome[1].summary.failed > 1

(***************************************************************************)
(* C2.  With continue_on_error=false the run stops at the first failing    *)
(* record: once it has failed it makes no further transport call, no call  *)
(* was made for a record after the failing one, and the outcome has        *)
(* len(results) <= total with total the full input length.                 *)
(***************************************************************************)
C2_StopsAtFirstFailure ==
    /\ [](\A c \in Runs : Stopped(c) =>
            /\ failed[c] = 1
            /\ pc[c] \in {"break", "done"}
            /\ \A k \in DOMAIN CallsOf(c) : CallsOf(c)[k].pos <= idx[c]
            /\ pc[c] = "done" =>
                 /\ Len(outcome[c].results) <= outcome[c].summary.total
                 /\ outcome[c].summary.total = Len(records[c]))
    /\ [][\A c \in Runs : Stopped(c) => CallsOf(c)' = CallsOf(c)]_vars

C2_Witness ==
    /\ Stopped(1) /\ pc[1] = "done"
    /\ succeeded[1] > 0
    /\ idx[1] < Len(records[1])

(***************************************************************************)
(* C3.  A run with continue_on_error=false that meets a failure does not   *)
(* raise.  With return_errors=true the last entry of results is the        *)
(* failure entry of the failing record; with return_errors=false the       *)
(* failure leaves no entry and results holds one success entry for each    *)
(* record before the failing one.                                          *)
(***************************************************************************)
C3_FailureEndsBatch ==
    \A c \in Runs : Stopped(c) =>
        /\ pc[c] \in {"break", "done"}
        /\ return_errors[c] =>
             /\ results[c] # <<>>
             /\ IsFailureEntryOf(c, Last(results[c]), idx[c])
        /\ ~return_errors[c] =>
             /\ Len(results[c]) = idx[c] - 1
             /\ \A j \in DOMAIN results[c] : results[c][j].success
        /\ pc[c] = "done" => outcome[c].results = results[c]

C3_Witness ==
    /\ Stopped(1) /\ pc[1] = "done" /\ return_errors[1]
    /\ Len(outcome[1].results) > 1

\* C3 as stated: the failure entry is the last entry of results whatever
\* the value of return_errors.
C3_Original ==
    \A c \in Runs : (Stopped(c) /\ pc[c] = "done") =>
        /\ outcome[c].results # <<>>
        /\ Last(outcome[c].results).success = FALSE

(***************************************************************************)
(* C4.  With return_errors=false a failure increments failed by one and    *)
(* leaves results as it was, so that every entry of results is a success   *)
(* entry and len(results) equals succeeded.                                *)
(***************************************************************************)
C4_SilentFailures ==
    /\ [](\A c \in Runs : (Started(c) /\ ~return_errors[c]) =>
            /\ \A j \in DOMAIN results[c] : results[c][j].success
            /\ Len(results[c]) = succeeded[c]
            /\ pc[c] = "done" =>
                 /\ Len(outcome[c].results) = outcome[c].summary.succeeded
                 /\ \A j \in DOMAIN outcome[c].results : outcome[c].results[j].success)
    /\ [][\A c \in Runs : (Started(c) /\ ~return_errors[c] /\ failed[c]' # failed[c]) =>
            /\ failed[c]' = failed[c] + 1
            /\ results[c]' = results[c]]_vars

C4_Witness ==
    /\ pc[1] = "done" /\ ~return_errors[1]
    /\ outcome[1].summary.failed > 0
    /\ outcome[1].summary.succeeded > 0

(***************************************************************************)
(* More vocabulary.                                                        *)
(***************************************************************************)
\* The transport calls run c made for the record at position p.
CallsAt(c, p) == {k \in DOMAIN CallsOf(c) : CallsOf(c)[k].pos = p}

\* Strictly increasing sequence of numbers.
Increasing(q) == \A j, k \in DOMAIN q : j < k => q[j] < q[k]

\* The record at position p gets through the code that precedes the send:
\* the key lookups of update and the construction of the model instance.
Marshals(c, p) ==
    LET record == records[c][p]
        model_class == _get_model_class(entity_type[c]) IN
    CASE coro[c] = "create" -> Validates(model_class, record)
      [] coro[c] = "update" -> /\ "id" \in DOMAIN record
                             /\ "data" \in DOMAIN record
                             /\ Validates(model_class, record.data)
      [] coro[c] = "delete" -> TRUE

\* The positions whose iteration has begun: those before the loop variable,
\* and the loop variable's own while its call is in flight or once the loop
\* was left by break.
Reached(c) ==
    {p \in DOMAIN records[c] :
        \/ p < idx[c]
        \/ p = idx[c] /\ (pc[c] = "await" \/ Stopped(c))}

\* Entry e is the success entry of the record at position p of run c.
IsSuccessEntryOf(c, e, p) ==
    /\ e.success = TRUE
    /\ CASE coro[c] = "create" ->
              \E k \in CallsAt(c, p) :
                  /\ k <= Len(replies[c])
                  /\ replies[c][k].kind = "return"
                  /\ "id" \in DOMAIN replies[c][k].json
                  /\ e.id = replies[c][k].json.id
         [] coro[c] = "update" -> e.id = Get(records[c][p], "id")
         [] coro[c] = "delete" -> e.id = records[c][p]

(***************************************************************************)
(* C5.  A run handles its records one at a time: at most one transport     *)
(* call is in flight, a call is started only when nothing is in flight and *)
(* every earlier record has been fully processed, the calls follow input   *)
(* order, and the entries of results follow input order, each being the    *)
(* entry of its own record.                                                *)
(***************************************************************************)
C5_Sequential ==
    /\ [](\A c \in Runs :
            /\ Len(pending[c]) <= 1
            /\ Increasing([k \in DOMAIN CallsOf(c) |-> CallsOf(c)[k].pos])
            /\ Increasing(origin[c])
            /\ Len(origin[c]) = Len(results[c])
            /\ \A j \in DOMAIN results[c] :
                  \/ IsSuccessEntryOf(c, results[c][j], origin[c][j])
                  \/ IsFailureEntryOf(c, results[c][j], origin[c][j]))
    /\ [][\A c \in Runs : CallsOf(c)' # CallsOf(c) =>
            /\ pending[c] = <<>>
            /\ succeeded[c] + failed[c] = idx[c] - 1
            /\ CallsOf(c)' = Append(CallsOf(c), Last(CallsOf(c)'))
            /\ Last(CallsOf(c)').pos = idx[c]]_vars

C5_Witness ==
    /\ pc[1] = "done"
    /\ Len(CallsOf(1)) = MaxLen
    /\ Len(outcome[1].results) = MaxLen
    /\ failed[1] > 0 /\ succeeded[1] > 0

(***************************************************************************)
(* C6.  A record causes at most one transport call: exactly one once it is *)
(* reached and gets through marshaling, none when it fails marshaling (and *)
(* then it is counted in failed) or is not reached.                        *)
(***************************************************************************)
C6_OneAttemptPerRecord ==
    \A c \in Runs :
        /\ \A p \in DOMAIN records[c] :
              Cardinality(CallsAt(c, p)) =
                  IF p \in Reached(c) /\ Marshals(c, p) THEN 1 ELSE 0
        /\ failed[c] >= Cardinality({p \in Reached(c) : ~Marshals(c, p)})
        /\ Len(CallsOf(c)) <= Len(records[c])

C6_Witness ==
    /\ pc[1] = "done" /\ coro[1] = "create" /\ continue_on_error[1]
    /\ \E p, q \in Reached(1) : ~Marshals(1, p) /\ Marshals(1, q)
    /\ \E k \in DOMAIN replies[1] : replies[1][k].kind = "raise"

(***************************************************************************)
(* C7.  In create, when the post of a validated record returns a response  *)
(* that has an id, the step appends {success: true, id: response id} to    *)
(* results and adds exactly one to succeeded (and nothing to failed).      *)
(***************************************************************************)
C7_CreateSuccess ==
    [][\A c \in Runs :
        (/\ coro[c] = "create" /\ pc[c] = "await"
         /\ Len(replies[c]') = Len(replies[c]) + 1
         /\ Last(replies[c]').kind = "return"
         /\ "id" \in DOMAIN Last(replies[c]').json)
        => /\ Validates(_get_model_class(entity_type[c]), records[c][idx[c]])
           /\ succeeded[c]' = succeeded[c] + 1
           /\ failed[c]' = failed[c]
           /\ results[c]' = Append(results[c],
                  [success |-> TRUE, id |-> Last(replies[c]').json.id])]_vars

C7_Witness ==
    /\ coro[1] = "create" /\ pc[1] = "done"
    /\ \E j \in DOMAIN outcome[1].results :
          /\ outcome[1].results[j].success
          /\ outcome[1].results[j].id = 456
    /\ outcome[1].summary.succeeded = 2

\* C7 as stated: every post that returns without raising yields a success.
C7_Original ==
    [][\A c \in Runs :
        (/\ coro[c] = "create" /\ pc[c] = "await"
         /\ Len(replies[c]') = Len(replies[c]) + 1
         /\ Last(replies[c]').kind = "return")
        => /\ succeeded[c]' = succeeded[c] + 1
           /\ Len(results[c]') = Len(results[c]) + 1
           /\ Last(results[c]').success]_vars

(***************************************************************************)
(* C8.  In update the id given beside data rules: every PUT goes to        *)
(* /{entity_type}/{that id}, a success entry carries that id (whatever id  *)
(* the response or data hold), and a failure entry carries what            *)
(* record.get("id") gives for the same record.                             *)
(***************************************************************************)
C8_OuterIdRules ==
    \A c \in Runs : coro[c] = "update" =>
        /\ \A k \in DOMAIN CallsOf(c) :
              LET call == CallsOf(c)[k] IN
              /\ call.method = "PUT"
              /\ "id" \in DOMAIN records[c][call.pos]
              /\ call.path = <<entity_type[c], records[c][call.pos].id>>
        /\ \A j \in DOMAIN results[c] :
              LET record == records[c][origin[c][j]] IN
              /\ results[c][j].success => "id" \in DOMAIN record
              /\ results[c][j].id = Get(record, "id")
        /\ pc[c] = "done" => outcome[c].results = results[c]

C8_Witness ==
    /\ coro[1] = "update" /\ pc[1] = "done" /\ return_errors[1]
    /\ \E j, k \in DOMAIN outcome[1].results :
          /\ outcome[1].results[j].success
          /\ "id" \in DOMAIN records[1][origin[1][j]].data
          /\ ~outcome[1].results[k].success
          /\ outcome[1].results[k].id = 1

(***************************************************************************)
(* C9.  A delete with continue_on_error=true and return_errors=true makes  *)
(* exactly one DELETE call per id, in input order, whatever failed before, *)
(* and results[i].success is false exactly where the i-th call raised.     *)
(* For ids [1,2,3] with the second call raising: succeeded=2, failed=1,    *)
(* total=3.                                                                *)
(***************************************************************************)
C9_DeleteContinues ==
    \A c \in Runs :
        (/\ coro[c] = "delete" /\ pc[c] = "done"
         /\ continue_on_error[c] /\ return_errors[c]) =>
            /\ CallsOf(c) = [i \in DOMAIN records[c] |->
                    [run |-> c, method |-> "DELETE",
                     path |-> <<entity_type[c], records[c][i]>>, pos |-> i]]
            /\ Len(replies[c]) = Len(records[c])
            /\ Len(outcome[c].results) = Len(records[c])
            /\ \A i \in DOMAIN records[c] :
                  /\ outcome[c].results[i].success = (replies[c][i].kind # "raise")
                  /\ outcome[c].results[i].id = records[c][i]
            /\ (/\ records[c] = <<1, 2, 3>>
                /\ [i \in 1..3 |-> replies[c][i].kind] = <<"return", "raise", "return">>)
               => outcome[c].summary = [total |-> 3, succeeded |-> 2, failed |-> 1]

C9_Witness ==
    /\ coro[1] = "delete" /\ pc[1] = "done"
    /\ continue_on_error[1] /\ return_errors[1]
    /\ records[1] = <<1, 2, 3>>
    /\ [i \in 1..3 |-> replies[1][i].kind] = <<"return", "raise", "return">>
    /\ ~outcome[1].results[2].success

(***************************************************************************)
(* C10.  Two runs of the same operation with the same records, the same    *)
(* flags and the same transport answers return the same results and the    *)
(* same summary.                                                           *)
(***************************************************************************)
C10_Deterministic ==
    \A c, r \in Runs :
        (/\ pc[c] = "done" /\ pc[r] = "done"
         /\ coro[c] = coro[r] /\ entity_type[c] = entity_type[r]
         /\ records[c] = records[r]
         /\ continue_on_error[c] = continue_on_error[r]
         /\ return_errors[c] = return_errors[r]
         /\ replies[c] = replies[r])
        => /\ outcome[c].results = outcome[r].results
           /\ outcome[c].summary = outcome[r].summary

C10_Witness ==
    /\ pc[1] = "done" /\ pc[2] = "done"
    /\ replies[2] # <<>> /\ replies[1] = replies[2]
    /\ outcome[2].summary.succeeded > 0
    /\ outcome[2].summary.failed > 0
    /\ Len(outcome[2].results) = MaxLen

(***************************************************************************)
(* C11.  get_related_records with related_type "activities" makes a single *)
(* GET to /{entity_type}/{entity_id}/activities and, when the response has *)
(* data and metadata, returns the response's data list as it came (no      *)
(* element is marshaled) under the key activities, never under data,       *)
(* beside the response's metadata, whether the list is empty or not.       *)
(***************************************************************************)
C11_ActivitiesShape ==
    (rpc # "idle" /\ rargs.fn = "get_related_records" /\ rargs.related_type = "activities") =>
        /\ rcalls = << [method |-> "GET",
                        path |-> <<rargs.entity_type, rargs.entity_id, "activities">>,
                        params |-> rcalls[1].params] >>
        /\ (/\ rpc # "await" /\ rresponse.kind = "return"
            /\ {"data", "metadata"} \subseteq DOMAIN rresponse.json)
           => /\ rpc = "returned"
              /\ rresult.kind = "ok"
              /\ DOMAIN rresult.value = {"activities", "metadata"}
              /\ rresult.value.activities = rresponse.json.data
              /\ rresult.value.metadata = rresponse.json.metadata

C11_Witness ==
    /\ rpc = "returned" /\ rargs.fn = "get_related_records"
    /\ rargs.related_type = "activities"
    /\ Len(rresult.value.activities) = 2
    /\ "type" \in DOMAIN rresult.value.activities[1]

(***************************************************************************)
(* C12.  get_related_records with another related_type makes a single GET  *)
(* to /{entity_type}/{entity_id}/related/{related_type}; what it returns   *)
(* has under data one entry per element of the response's data, in the     *)
(* same order, each the element marshaled by the model of related_type,    *)
(* and under metadata the response's metadata as it came.                  *)
(***************************************************************************)
C12_RelatedMarshaled ==
    (rpc # "idle" /\ rargs.fn = "get_related_records" /\ rargs.related_type # "activities") =>
        /\ rcalls = << [method |-> "GET",
                        path |-> <<rargs.entity_type, rargs.entity_id,
                                   "related", rargs.related_type>>,
                        params |-> rcalls[1].params] >>
        /\ rpc = "returned" =>
              /\ DOMAIN rresult.value = {"data", "metadata"}
              /\ rresult.value.metadata = rresponse.json.metadata
              /\ Len(rresult.value.data) = Len(rresponse.json.data)
              /\ \A i \in DOMAIN rresponse.json.data :
                    LET entity == from_api(_get_model_class(rargs.related_type),
                                           rresponse.json.data[i]).result
                    IN  /\ entity.kind = "ok"
                        /\ rresult.value.data[i] = BaseModel_dict(entity.value, FALSE, TRUE)
                        /\ rresult.value.data[i].id = rresponse.json.data[i].id

C12_Witness ==
    /\ rpc = "returned" /\ rargs.fn = "get_related_records"
    /\ rargs.entity_type = "opportunities" /\ rargs.related_type = "people"
    /\ Len(rresult.value.data) = 2
    /\ rresult.value.data[1].id = PyInt(125)
    /\ rresult.value.data[1].phone_numbers = List(<<Str("+1")>>)
    /\ rresult.value.data[2].id = PyInt(124)
    /\ rresult.value.metadata.total_count = 40

(***************************************************************************)
(* C13.  When the GET of get_related_records or get_entity_activities      *)
(* raises, the call raises that same exception, returns no result, and     *)
(* has made exactly one transport call.                                    *)
(***************************************************************************)
C13_FailurePropagates ==
    (rpc \in {"returned", "raised"} /\ rresponse.kind = "raise") =>
        /\ rpc = "raised"
        /\ rresult = [kind |-> "raise", exc |-> rresponse.message]
        /\ Len(rcalls) = 1

C13_Witness ==
    /\ rpc = "raised" /\ rresponse.kind = "raise"
    /\ rresult.exc = "API Error"
    /\ rargs.fn = "get_entity_activities"

(***************************************************************************)
(* C14.  get_entity_activities returns the activities-keyed shape, and its *)
(* query holds, with the caller's values: page_size and page_number        *)
(* whenever they were supplied, and activity_types, date_from and date_to  *)
(* whenever they were supplied and are not empty; nothing else.            *)
(***************************************************************************)
C14_FiltersPassed ==
    (rpc # "idle" /\ rargs.fn = "get_entity_activities") =>
        /\ Len(rcalls) = 1
        /\ rcalls[1].path = <<rargs.entity_type, rargs.entity_id, "activities">>
        /\ DOMAIN rcalls[1].params \subseteq DOMAIN rargs.given
        /\ \A k \in DOMAIN rcalls[1].params : rcalls[1].params[k] = rargs.given[k]
        /\ \A k \in DOMAIN rargs.given \cap {"page_size", "page_number"} :
              k \in DOMAIN rcalls[1].params
        /\ \A k \in DOMAIN rargs.given \cap {"date_from", "date_to"} :
              k \in DOMAIN rcalls[1].params <=> rargs.given[k] # ""
        /\ \A k \in DOMAIN rargs.given \cap {"activity_types"} :
              k \in DOMAIN rcalls[1].params <=> rargs.given[k] # <<>>
        /\ rpc = "returned" =>
              /\ DOMAIN rresult.value = {"activities", "metadata"}
              /\ rresult.value.activities = rresponse.json.data

C14_Witness ==
    /\ rpc = "returned" /\ rargs.fn = "get_entity_activities"
    /\ DOMAIN rargs.given = {"activity_types", "date_from", "date_to",
                             "page_size", "page_number"}
    /\ rargs.given.activity_types = <<>>
    /\ rargs.given.date_from = "2024-01-01"
    /\ rargs.given.page_size = 0
    /\ DOMAIN rcalls[1].params = {"date_from", "page_size", "page_number"}

\* C14 as stated: every supplied filter is in the query, and no other.
C14_Original ==
    (rpc # "idle" /\ rargs.fn = "get_entity_activities") =>
        DOMAIN rcalls[1].params = DOMAIN rargs.given

(***************************************************************************)
(* C15.  Round trip: for an entity e a constructor call returned,          *)
(* from_api(to_api(e)) returns an entity of the same class whose every     *)
(* field equals that of e, datetimes compared to the second; a field that  *)
(* is None in e is None in the result.                                     *)
(***************************************************************************)
SameToSecond(a, b) ==
    IF a[1] = "datetime" /\ b[1] = "datetime" THEN a[2] = b[2] ELSE a = b

RoundTripped ==
    /\ kwargs.kind = "ok" /\ instance.kind = "ok"
    /\ payload.kind = "ok" /\ Len(decoded) >= 1

C15_RoundTrip ==
    RoundTripped =>
        /\ decoded[1].kind = "ok"
        /\ decoded[1].value[3] = instance.value[3]
        /\ \A n \in DOMAIN instance.value[2] :
              SameToSecond(instance.value[2][n], decoded[1].value[2][n])

(***************************************************************************)
(* C16.  A payload to_api returns has no key whose value is None, neither  *)
(* at the top nor in the dicts its lists hold (addresses, custom fields):  *)
(* a field that is None in the entity has no key in the payload.           *)
(***************************************************************************)
NullFree(d) ==
    \A k \in DOMAIN d :
        /\ d[k] # Null
        /\ d[k][1] = "list" =>
              \A i \in DOMAIN d[k][2] :
                  d[k][2][i][1] = "dict" =>
                      \A j \in DOMAIN d[k][2][i][2] : d[k][2][i][2][j] # Null

C16_NoNullInPayload ==
    payload.kind = "ok" =>
        /\ NullFree(payload.value)
        /\ instance.kind = "ok" =>
              \A n \in {"id", "details", "priority", "close_date", "due_date"} :
                  (n \in DOMAIN instance.value[2] /\ instance.value[2][n] = Null)
                      => n \notin DOMAIN payload.value

C16_Witness ==
    /\ payload.kind = "ok" /\ instance.kind = "ok" /\ mcls = "Person"
    /\ instance.value[2].details = Null
    /\ instance.value[2].interaction_count = Null
    /\ "addresses" \in DOMAIN payload.value
    /\ Len(payload.value.addresses[2]) = 1
    /\ instance.value[2].addresses[2][1][2].state = Null
    /\ "date_created" \in DOMAIN payload.value
    /\ payload.value.date_created = PyInt(1700)

(***************************************************************************)
(* C17.  from_api leaves the dict it was given as it was, and a second     *)
(* from_api on the same dict returns an entity equal to the first.         *)
(***************************************************************************)
C17_FromApiPure ==
    (wire.kind = "ok" /\ decoded # <<>>) =>
        /\ DOMAIN wire.value = DOMAIN wire0.value
        /\ \A k \in DOMAIN wire.value : wire.value[k] = wire0.value[k]
        /\ Len(decoded) = 2 => decoded[2] = decoded[1]

(***************************************************************************)
(* C18.  A constructor call of Person, Company, Opportunity or Task that   *)
(* is given no name, or the empty string as name, raises a validation      *)
(* error.                                                                  *)
(***************************************************************************)
C18_NameRequired ==
    (/\ kwargs.kind = "ok" /\ instance # Nothing
     /\ \/ "name" \notin DOMAIN kwargs.value
        \/ kwargs.value.name = Str(""))
    => instance = Raise("ValidationError")

(***************************************************************************)
(* C19.  The Opportunity constructor accepts probability and               *)
(* win_probability exactly when each is absent, None or an integer from 0  *)
(* to 100: with the other arguments valid, 0, 75 and 100 give an instance  *)
(* holding the value, and -1, 101 and 150 raise a validation error.        *)
(***************************************************************************)
Without(d, K) == [k \in DOMAIN d \ K |-> d[k]]

\* The keyword arguments are a valid constructor call but for the keys in K.
ValidBut(K) ==
    \/ Without(kwargs.value, K) = Without([name |-> Str("A")], K)
    \/ Without(kwargs.value, K) = Without(FullKwargs(mcls), K)

InRange(kw, n) == n \in DOMAIN kw => (kw[n] = Null \/ (kw[n][2] >= 0 /\ kw[n][2] <= 100))

C19_ProbabilityRange ==
    (mcls = "Opportunity" /\ kwargs.kind = "ok" /\ instance # Nothing) =>
        LET kw == kwargs.value IN
        /\ ~(InRange(kw, "probability") /\ InRange(kw, "win_probability"))
              => instance = Raise("ValidationError")
        /\ (/\ ValidBut({"probability", "win_probability"})
            /\ InRange(kw, "probability") /\ InRange(kw, "win_probability"))
              => /\ instance.kind = "ok"
                 /\ \A n \in {"probability", "win_probability"} \cap DOMAIN kw :
                       instance.value[2][n] = kw[n]
        /\ \A n \in {"probability", "win_probability"}, p \in {0, 75, 100} :
              kw = [name |-> Str("A")] @@ (n :> PyInt(p)) => instance.kind = "ok"
        /\ \A n \in {"probability", "win_probability"}, p \in {-1, 101, 150} :
              kw = [name |-> Str("A")] @@ (n :> PyInt(p)) => instance.kind = "raise"

C19_Witness ==
    /\ mcls = "Opportunity"
    /\ kwargs.kind = "ok" /\ kwargs.value = FullKwargs("Opportunity") @@ [win_probability |-> PyInt(100)]
    /\ instance.kind = "ok"
    /\ instance.value[2].probability = PyInt(75)
    /\ instance.value[2].win_probability = PyInt(100)

(***************************************************************************)
(* C20.  The constructors accept a status or priority that is not None     *)
(* only from the field's value set: a Task status only if Open or          *)
(* Completed, an Opportunity status only if Open, Won, Lost or Abandoned,  *)
(* a priority of either only if None, Low, Medium or High; with the other  *)
(* arguments valid a value of the set is accepted, and any other value     *)
(* raises a validation error.                                              *)
(***************************************************************************)
InSet(kw, n, S) == n \in DOMAIN kw => (kw[n] = Null \/ kw[n][2] \in S)

C20_ClosedEnums ==
    (mcls \in {"Task", "Opportunity"} /\ kwargs.kind = "ok" /\ instance # Nothing) =>
        LET kw == kwargs.value
            statuses == IF mcls = "Task" THEN {"Open", "Completed"}
                        ELSE {"Open", "Won", "Lost", "Abandoned"}
            priorities == {"None", "Low", "Medium", "High"}
        IN  /\ ~(InSet(kw, "status", statuses) /\ InSet(kw, "priority", priorities))
                  => instance = Raise("ValidationError")
            /\ (/\ ValidBut({"status", "priority"})
                /\ InSet(kw, "status", statuses) /\ InSet(kw, "priority", priorities))
                  => /\ instance.kind = "ok"
                     /\ \A n \in {"status", "priority"} \cap DOMAIN kw :
                           instance.value[2][n] = kw[n]

C20_Witness ==
    /\ mcls = "Task" /\ kwargs.kind = "ok"
    /\ kwargs.value = [name |-> Str("A"), status |-> Str("Won")]
    /\ instance = Raise("ValidationError")

(***************************************************************************)
(* C21.  from_api of Person and Company on a dict whose phone_numbers is a *)
(* list: the entity's phone_numbers are the number values of the entries   *)
(* that have the key number, in the order of the list; an entry without    *)
(* that key is left out and raises nothing, so [{number: +1}, {bogus: x}]  *)
(* gives [+1].                                                             *)
(***************************************************************************)
\* The dict from_api was given is a valid response but for the keys in K.
ValidWireBut(K) ==
    \/ Without(wire0.value, K) = Without([name |-> Str("A")], K)
    \/ Without(wire0.value, K) = Without(FullWire(mcls), K)

C21_PhoneUnwrap ==
    (/\ kwargs.kind = "none" /\ Len(decoded) >= 1
     /\ mcls \in {"Person", "Company"}
     /\ "phone_numbers" \in DOMAIN wire0.value
     /\ wire0.value.phone_numbers[1] = "list") =>
        LET kept == SelectSeq(wire0.value.phone_numbers[2],
                              LAMBDA x : "number" \in DOMAIN x[2])
        IN  /\ decoded[1].kind = "ok" =>
                  decoded[1].value[2].phone_numbers =
                      List([i \in DOMAIN kept |-> kept[i][2].number])
            /\ ValidWireBut({"phone_numbers"}) => decoded[1].kind = "ok"
            /\ wire0.value.phone_numbers = NumberAndBogus /\ decoded[1].kind = "ok" =>
                  decoded[1].value[2].phone_numbers = List(<<Str("+1")>>)

C21_Witness ==
    /\ kwargs.kind = "none" /\ Len(decoded) >= 1 /\ mcls = "Person"
    /\ "phone_numbers" \in DOMAIN wire0.value
    /\ wire0.value.phone_numbers = NumberAndBogus
    /\ decoded[1].kind = "ok"
    /\ decoded[1].value[2].phone_numbers = List(<<Str("+1")>>)

(***************************************************************************)
(* C22.  from_api gives a dict's integer date_created / date_modified to   *)
(* the entity as created_at / updated_at, and to_api of that entity has    *)
(* them back under date_created / date_modified as the same integer epoch  *)
(* seconds; no payload of to_api has a key created_at or updated_at, and   *)
(* its date_created / date_modified are integers.                          *)
(***************************************************************************)
AliasPairs == { <<"date_created", "created_at">>, <<"date_modified", "updated_at">> }

C22_AliasSymmetric ==
    \A a \in AliasPairs :
        /\ payload.kind = "ok" =>
              /\ a[2] \notin DOMAIN payload.value
              /\ a[1] \in DOMAIN payload.value => payload.value[a[1]][1] = "int"
        /\ (/\ kwargs.kind = "none" /\ Len(decoded) >= 1 /\ decoded[1].kind = "ok"
            /\ a[1] \in DOMAIN wire0.value /\ wire0.value[a[1]][1] = "int") =>
              /\ decoded[1].value[2][a[2]] = DateTime(wire0.value[a[1]][2], 0)
              /\ payload.kind = "ok" =>
                    /\ a[1] \in DOMAIN payload.value
                    /\ payload.value[a[1]] = wire0.value[a[1]]

C22_Witness ==
    /\ kwargs.kind = "none" /\ Len(decoded) >= 1 /\ decoded[1].kind = "ok"
    /\ mcls = "Person" /\ payload.kind = "ok"
    /\ "date_created" \in DOMAIN wire0.value /\ wire0.value.date_created = PyInt(1800)
    /\ decoded[1].value[2].created_at = DateTime(1800, 0)
    /\ decoded[1].value[2].updated_at = DateTime(1900, 0)
    /\ "date_created" \in DOMAIN payload.value /\ payload.value.date_created = PyInt(1800)
    /\ "date_modified" \in DOMAIN payload.value /\ payload.value.date_modified = PyInt(1900)

(***************************************************************************)
(* C23.  from_api on a dict whose addresses list has an entry that is not  *)
(* a mapping raises MalformedResponseError, and on a dict of the right     *)
(* shape with a value its schema rejects (a status outside the set, a      *)
(* negative interaction_count) raises ValidationError.                     *)
(***************************************************************************)
C23_TypedErrors ==
    (/\ kwargs.kind = "none" /\ Len(decoded) >= 1
     /\ mcls \in {"Person", "Company"}) =>
        /\ (/\ "addresses" \in DOMAIN wire0.value
            /\ wire0.value.addresses[1] = "list"
            /\ \E i \in DOMAIN wire0.value.addresses[2] :
                  wire0.value.addresses[2][i][1] # "dict")
           => decoded[1] = Raise("MalformedResponseError")
        /\ (/\ ValidWireBut({"status", "interaction_count"})
            /\ \/ "status" \in DOMAIN wire0.value /\ wire0.value.status = Str("Bogus")
                  /\ mcls = "Person"
               \/ "interaction_count" \in DOMAIN wire0.value
                  /\ wire0.value.interaction_count = PyInt(-1))
           => decoded[1] = Raise("ValidationError")

\* The session the k-th client operation found: the one the operation
\* before it left, or the constructor's.
SessionBefore(k) == IF k = 1 THEN 1 ELSE oplog[k - 1].on

\* C24: a failed HTTP request issued through get, post, put or delete is
\* retried by the transport before the failure reaches the caller: when the
\* caller sees the failure, RATE_LIMIT max_retries attempts have been made.
C24_RetriedByTransport ==
    \A k \in DOMAIN oplog :
        oplog[k].call \in Methods /\ oplog[k].result = "HTTPError"
            => oplog[k].attempts = RATE_LIMIT_max_retries

\* C30: over any sequence of connect, close and request operations a
\* request is sent on an open session, connect on an open session leaves
\* that session in place, and after close the session is recorded as closed.
C30_SessionLifecycle ==
    \A k \in DOMAIN oplog :
        /\ oplog[k].call \in Methods => oplog[k].on # None
        /\ oplog[k].call = "connect" /\ SessionBefore(k) # None
              => oplog[k].on = SessionBefore(k)
        /\ oplog[k].call = "close" => oplog[k].on = None

\* C25: when a batch call is cancelled while the transport call of a record
\* is in flight, the entries and the counters recorded for the earlier
\* records are not altered, and the record in flight is either not recorded
\* at all or recorded in full (one more entry and one more count).
C25_CancelAtomic ==
    [][\A c \in Runs :
        pc[c] = "await" /\ pc'[c] = "cancelled" =>
            \/ /\ results'[c] = results[c]
               /\ succeeded'[c] = succeeded[c]
               /\ failed'[c] = failed[c]
            \/ /\ Len(results'[c]) = Len(results[c]) + 1
               /\ SubSeq(results'[c], 1, Len(results[c])) = results[c]
               /\ succeeded'[c] >= succeeded[c]
               /\ failed'[c] >= failed[c]
               /\ succeeded'[c] + failed'[c] = succeeded[c] + failed[c] + 1]_vars

\* A call cancelled in its third record, with two records already recorded.
C25_Witness ==
    /\ pc[1] = "cancelled"
    /\ idx[1] = 3
    /\ Len(results[1]) = 2
    /\ succeeded[1] + failed[1] = 2
    /\ outcome[1] = <<>>

\* What the loop body of operation o makes of one record when the transport,
\* if the body gets as far as calling it, answers a: whether the call is
\* made, whether the record succeeds, and the entry for results.
Handled(o, cls, record, a) ==
    LET invalid(entry) == [asks |-> FALSE, ok |-> FALSE, entry |-> entry]
        refused(entry) == [asks |-> TRUE, ok |-> FALSE, entry |-> entry]
        accepted(entry) == [asks |-> TRUE, ok |-> TRUE, entry |-> entry]
    IN  CASE o = "create" ->
                IF ~Validates(cls, record)
                   THEN invalid(create_error(ValidationMessage, record))
                ELSE IF a.kind = "raise"
                   THEN refused(create_error(a.message, record))
                ELSE IF "id" \notin DOMAIN a.json
                   THEN refused(create_error(KeyErrorMessage("id"), record))
                ELSE accepted(create_success(record, a.json))
          [] o = "update" ->
                IF "id" \notin DOMAIN record
                   THEN invalid(update_error(KeyErrorMessage("id"), record))
                ELSE IF "data" \notin DOMAIN record
                   THEN invalid(update_error(KeyErrorMessage("data"), record))
                ELSE IF ~Validates(cls, record.data)
                   THEN invalid(update_error(ValidationMessage, record))
                ELSE IF a.kind = "raise"
                   THEN refused(update_error(a.message, record))
                ELSE accepted(update_success(record, a.json))
          [] OTHER ->
                IF a.kind = "raise"
                   THEN refused(delete_error(a.message, record))
                   ELSE accepted(delete_success(record, a.json))

\* The call of run c made on its own: its records taken in order from
\* position p on, the answers to its own transport calls taken in order
\* from answers, the accumulators as they stand in acc.
RECURSIVE Alone(_, _, _, _)
Alone(c, p, answers, acc) ==
    IF p > Len(records[c]) \/ acc.broke
       THEN [results |-> acc.results,
             summary |-> [total |-> Len(records[c]),
                          succeeded |-> acc.succeeded,
                          failed |-> acc.failed]]
       ELSE LET h == Handled(coro[c], _get_model_class(entity_type[c]), records[c][p],
                             Head(answers))
                left == IF h.asks THEN Tail(answers) ELSE answers
            IN  IF h.ok
                   THEN Alone(c, p + 1, left,
                              [acc EXCEPT !.results = Append(@, h.entry),
                                          !.succeeded = @ + 1])
                   ELSE Alone(c, p + 1, left,
                              [acc EXCEPT !.results = IF return_errors[c]
                                                         THEN Append(@, h.entry) ELSE @,
                                          !.failed = @ + 1,
                                          !.broke = ~continue_on_error[c]])

AloneOutcome(c) ==
    Alone(c, 1, replies[c], [results |-> <<>>, succeeded |-> 0, failed |-> 0, broke |-> FALSE])

C27_MetadataOptional ==
    ( /\ rpc \in {"returned", "raised"}
      /\ rresponse.kind = "return"
      /\ "data" \in DOMAIN rresponse.json
      /\ "metadata" \notin DOMAIN rresponse.json
      /\ rargs.fn = "get_entity_activities" \/ rresponse.json.data = <<>> )
        => rpc = "returned" /\ rresult.kind = "ok"

\* The records of run c whose handling is over: those before the loop
\* variable, and the one it stands on when the loop was left by break.
Processed(c) ==
    IF pc[c] = "break" \/ (pc[c] = "done" /\ idx[c] <= Len(records[c]))
       THEN idx[c]
       ELSE idx[c] - 1

\* The entries of results that report a success.
Successes(c) == SelectSeq(results[c], LAMBDA e : e.success)

\* C28: loop invariant of every batch operation, for all flag combinations
\* and at every point of the run: succeeded + failed is the number of
\* records processed so far, succeeded is the number of success entries in
\* results, failed is at most 1 when continue_on_error is false, and neither
\* counter ever decreases.
C28_LoopInvariant ==
    /\ [](\A c \in Runs :
            /\ succeeded[c] + failed[c] = Processed(c)
            /\ succeeded[c] = Len(Successes(c))
            /\ ~continue_on_error[c] => failed[c] <= 1)
    /\ [][\A c \in Runs :
            succeeded'[c] >= succeeded[c] /\ failed'[c] >= failed[c]]_vars

\* A run with continue_on_error in its third record, successes and
\* failures both recorded.
C28_Witness ==
    /\ pc[1] = "await"
    /\ continue_on_error[1]
    /\ idx[1] = 3
    /\ succeeded[1] = 1
    /\ failed[1] = 1

\* C29: every batch call terminates: when each transport call returns or
\* raises in the end, a call that was started returns an outcome, and it
\* makes at most len(input) transport calls on the way, whatever the input,
\* the failures and the flags.
C29_Terminates ==
    /\ Started(1) ~> (pc[1] = "done" /\ outcome[1] # <<>>)
    /\ [](Len(CallsOf(1)) <= Len(records[1]))

\* A call on three records has returned after three transport calls.
C29_Witness ==
    /\ pc[1] = "done"
    /\ Len(records[1]) = 3
    /\ Len(CallsOf(1)) = 3
    /\ outcome[1].summary.total = 3

====
